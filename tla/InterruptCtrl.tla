--------------------------- MODULE InterruptCtrl ---------------------------
(***************************************************************************)
(* hal_core::interrupt::InterruptController on one core: the local APIC of *)
(* hal-x86_64, the GICv3 of hal-arm64 and the PLIC of hal-riscv64, the     *)
(* handler table behind a RefCell, and the dispatch routine that the trap  *)
(* entry of cpu.rs calls.                                                  *)
(*                                                                         *)
(* The kernel ("thread") and a handler that dispatch has called ("isr")    *)
(* both call the trait.  A call is several steps: the table is written     *)
(* under a mutable borrow, then the line is enabled or disabled, which on  *)
(* the PLIC is a read and a write of the word all lines share.  Where the  *)
(* kernel has not masked interrupts, one may arrive between two steps of   *)
(* the thread; handlers run with interrupts masked by the trap.  A call    *)
(* the code refuses with Err changes nothing and is a stuttering step.     *)
(***************************************************************************)
EXTENDS Integers, FiniteSets

CONSTANTS
  Archs,       \* the architectures of this instance
  Kernels,     \* {TRUE}: kernels that mask interrupts around calls; see guarded
  Lines,       \* the IrqIds in play
  NoLine,      \* no line is in service
  Reserved,    \* FIRST_USABLE_IRQ_VECTOR, FIRST_USABLE_INTID
  TableSize,   \* IRQ_TABLE_SIZE, MAX_TRACKED_INTIDS, MAX_TRACKED_SOURCES
  Handlers,    \* the kernel's IrqHandler functions
  NoHandler,   \* Option::None
  Targets,     \* the target_core arguments of send_ipi
  Cores,       \* ipi_target_core_count
  U32          \* 2^32, the width `target_core as u32` keeps

ASSUME InterruptAssumption ==
  /\ Archs \subseteq {"x86_64", "arm64", "riscv64"}
  /\ Kernels \subseteq BOOLEAN
  /\ Lines \subseteq Nat /\ IsFiniteSet(Lines)
  /\ NoLine \notin Nat
  /\ Reserved \in Nat \ {0} /\ TableSize \in Nat \ {0}
  /\ NoHandler \notin Handlers
  /\ Targets \subseteq Nat
  /\ Cores \in Nat \ {0} /\ U32 \in Nat /\ Cores < U32

VARIABLES
  arch,        \* which hal-<arch> crate is linked
  guarded,     \* the kernel calls the HAL with interrupts masked
  published,   \* GLOBAL_CONTROLLER_PTR is set
  handlers,    \* InterruptCtrl::handlers
  borrowed,    \* handlers' RefCell is mutably borrowed
  priority,    \* riscv64: the sources whose PLIC priority is 1, not 0
  enabled,     \* the lines the controller lets through
  pending,     \* the lines a device, or an IPI, has raised
  soft,        \* a pending SGI (arm64) or SSI (riscv64)
  active,      \* APIC in-service, GIC active, PLIC claimed
  masked,      \* the kernel runs with interrupts masked
  ctx,         \* the context that runs now
  servicing,   \* what dispatch found in the table for the line it claimed
  call,        \* per context: the call in progress
  panicked,    \* a RefCell borrow failed: the panic handler loops for ever
  off          \* history: lines whose last call was mask_irq or unregister_irq

hw == <<priority, enabled, pending, soft, active>>
fixed == <<arch, guarded>>
vars == <<fixed, published, handlers, borrowed, hw, masked, ctx, servicing,
          call, panicked, off>>

Contexts == {"thread", "isr"}

FirstUsable == IF arch = "riscv64" THEN 1 ELSE Reserved

\* The range check every operation starts with.
Valid(l) ==
  /\ l >= FirstUsable
  /\ IF arch = "riscv64" THEN l < TableSize ELSE l < FirstUsable + TableSize

Idle == [pc |-> "idle"]
NotServicing == [line |-> NoLine, handler |-> NoHandler]

\* A call: where it is, on which line, whether it ends with the line enabled,
\* what it stores in the table, and the PLIC enable word it has read.
Call(pc, l, on, h) == [pc |-> pc, line |-> l, on |-> on, handler |-> h, word |-> {}]

----------------------------------------------------------------------------
\* InterruptCtrl::new and bootstrap_current_core.  The local APIC has no mask
\* for a device's vector, so on x86_64 every line is let through.
Init ==
  /\ arch \in Archs
  /\ guarded \in Kernels
  /\ published = FALSE
  /\ handlers = [l \in Lines |-> NoHandler]
  /\ borrowed = FALSE
  /\ priority = {}
  /\ enabled = IF arch = "x86_64" THEN Lines ELSE {}
  /\ pending = {}
  /\ soft = FALSE
  /\ active = {}
  /\ masked = TRUE
  /\ ctx = "thread"
  /\ servicing = NotServicing
  /\ call = [c \in Contexts |-> Idle]
  /\ panicked = FALSE
  /\ off = {}

set_global_controller ==
  /\ ctx = "thread" /\ call["thread"] = Idle /\ ~panicked
  /\ ~published /\ published' = TRUE
  /\ UNCHANGED <<fixed, handlers, borrowed, hw, masked, ctx, servicing, call,
                 panicked, off>>

----------------------------------------------------------------------------
(***************************************************************************)
(* The trait's calls.  A kernel that is guarded calls with interrupts      *)
(* masked; a handler always does.                                          *)
(***************************************************************************)
Calling(c) ==
  /\ ~panicked /\ ctx = c /\ call[c] = Idle
  /\ c = "thread" => (guarded => masked)
  /\ c = "isr" => servicing.handler # NoHandler

Panic ==
  /\ panicked' = TRUE
  /\ UNCHANGED <<fixed, published, handlers, borrowed, hw, masked, ctx,
                 servicing, call, off>>

\* handlers.borrow_mut(), held until the table is written.
BorrowMut(c, request) ==
  /\ borrowed' = TRUE
  /\ call' = [call EXCEPT ![c] = request]
  /\ UNCHANGED <<fixed, published, handlers, hw, masked, ctx, servicing,
                 panicked>>

register_irq(c, l, h) ==
  /\ Calling(c) /\ Valid(l)
  /\ IF borrowed THEN Panic
     ELSE /\ handlers[l] = NoHandler        \* else IrqAlreadyRegistered
          /\ BorrowMut(c, Call("store", l, TRUE, h))
          /\ off' = off \ {l}

unregister_irq(c, l) ==
  /\ Calling(c) /\ Valid(l)
  /\ IF borrowed THEN Panic
     ELSE /\ BorrowMut(c, Call("store", l, FALSE, NoHandler))
          /\ UNCHANGED off

mask_irq(c, l) ==
  /\ Calling(c) /\ Valid(l)
  /\ call' = [call EXCEPT ![c] = Call("line", l, FALSE, NoHandler)]
  /\ UNCHANGED <<fixed, published, handlers, borrowed, hw, masked, ctx,
                 servicing, panicked, off>>

unmask_irq(c, l) ==
  /\ Calling(c) /\ Valid(l)
  /\ call' = [call EXCEPT ![c] = Call("line", l, TRUE, NoHandler)]
  /\ off' = off \ {l}
  /\ UNCHANGED <<fixed, published, handlers, borrowed, hw, masked, ctx,
                 servicing, panicked>>

\* The call returns Ok.
Returns(c, l, on) ==
  /\ call' = [call EXCEPT ![c] = Idle]
  /\ off' = IF on THEN off \ {l} ELSE off \cup {l}

\* The table is written and the borrow dropped, before the hardware is touched;
\* x86_64 has nothing left to do.  On riscv64 registration sets the priority.
Store(c) ==
  /\ ~panicked /\ ctx = c /\ call[c].pc = "store"
  /\ handlers' = [handlers EXCEPT ![call[c].line] = call[c].handler]
  /\ borrowed' = FALSE
  /\ priority' = IF arch = "riscv64" /\ call[c].on
                 THEN priority \cup {call[c].line} ELSE priority
  /\ IF arch = "x86_64" THEN Returns(c, call[c].line, call[c].on)
     ELSE /\ call' = [call EXCEPT ![c].pc = "line"]
          /\ UNCHANGED off
  /\ UNCHANGED <<fixed, published, enabled, pending, soft, active, masked, ctx,
                 servicing, panicked>>

With(set, l, on) == IF on THEN set \cup {l} ELSE set \ {l}

\* mask_irq and unmask_irq of the local APIC: no hardware action.
SetLine_x86_64(c) ==
  /\ arch = "x86_64"
  /\ Returns(c, call[c].line, call[c].on)
  /\ UNCHANGED enabled

\* Slips: the wrong bit is set; the bit is never cleared.
set_line_off_by_one(c) ==
  /\ arch = "arm64"
  /\ enabled' = With(enabled, call[c].line + 1, call[c].on)
  /\ Returns(c, call[c].line, call[c].on)

set_line_without_clear(c) ==
  /\ arch = "arm64"
  /\ enabled' = enabled \cup (IF call[c].on THEN {call[c].line} ELSE {})
  /\ Returns(c, call[c].line, call[c].on)

\* GICD_ISENABLER and GICD_ICENABLER set and clear one bit.
SetLine_arm64(c) ==
  /\ arch = "arm64"
  /\ enabled' = With(enabled, call[c].line, call[c].on)
  /\ Returns(c, call[c].line, call[c].on)

\* The PLIC's enable word is read here and written in set_enabled.
SetLine_riscv64(c) ==
  /\ arch = "riscv64"
  /\ call' = [call EXCEPT ![c].pc = "write", ![c].word = enabled]
  /\ UNCHANGED <<enabled, off>>

SetLine(c) ==
  /\ ~panicked /\ ctx = c /\ call[c].pc = "line"
  /\ SetLine_x86_64(c) \/ SetLine_arm64(c) \/ SetLine_riscv64(c)
  /\ UNCHANGED <<fixed, published, handlers, borrowed, priority, pending, soft,
                 active, masked, ctx, servicing, panicked>>

set_enabled(c) ==
  /\ ~panicked /\ ctx = c /\ call[c].pc = "write"
  /\ enabled' = With(call[c].word, call[c].line, call[c].on)
  /\ Returns(c, call[c].line, call[c].on)
  /\ UNCHANGED <<fixed, published, handlers, borrowed, priority, pending, soft,
                 active, masked, ctx, servicing, panicked>>

\* An IPI to this core: a vector on x86_64, any vector, also one below the
\* first usable; an SGI or an SSI elsewhere.
send_ipi(c, target, vector) ==
  /\ Calling(c)
  /\ target % U32 < Cores
  /\ IF arch = "x86_64" THEN pending' = pending \cup {vector} /\ UNCHANGED soft
                        ELSE soft' = TRUE /\ UNCHANGED pending
  /\ UNCHANGED <<fixed, published, handlers, borrowed, priority, enabled, active,
                 masked, ctx, servicing, call, panicked, off>>

----------------------------------------------------------------------------
(***************************************************************************)
(* Devices, the kernel's interrupt mask, and dispatch.                     *)
(***************************************************************************)
Raise(l) ==
  /\ Valid(l) /\ l \notin pending
  /\ pending' = pending \cup {l}
  /\ UNCHANGED <<fixed, published, handlers, borrowed, priority, enabled, soft,
                 active, masked, ctx, servicing, call, panicked, off>>

\* A guarded kernel publishes the controller before it enables interrupts.
ToggleMask ==
  /\ ~panicked /\ ctx = "thread" /\ call["thread"] = Idle
  /\ guarded => published
  /\ masked' = ~masked
  /\ UNCHANGED <<fixed, published, handlers, borrowed, hw, ctx, servicing, call,
                 panicked, off>>

Interruptible == ~panicked /\ ctx = "thread" /\ ~masked

\* All lines have one priority.  An unfinished interrupt holds back the others
\* at the APIC and the GIC, and only itself at the PLIC; an APIC takes the
\* highest vector first, a PLIC the lowest source.
Deliverable(l) ==
  /\ l \in pending \cap enabled
  /\ CASE arch = "x86_64" -> active = {} /\ \A k \in pending : k <= l
       [] arch = "arm64" -> active = {}
       [] arch = "riscv64" ->
            /\ l \in priority \ active
            /\ \A k \in (pending \cap enabled \cap priority) \ active : l <= k

\* Slip: the handler runs inside the borrow of the table.
dispatch_borrowing(l) ==
  /\ Interruptible /\ published /\ Deliverable(l)
  /\ pending' = pending \ {l}
  /\ active' = active \cup {l}
  /\ borrowed' = TRUE
  /\ IF borrowed /\ Valid(l) THEN panicked' = TRUE /\ UNCHANGED <<ctx, servicing>>
     ELSE /\ ctx' = "isr"
          /\ servicing' = [line |-> l, handler |-> handlers[l]]
          /\ UNCHANGED panicked
  /\ UNCHANGED <<fixed, published, handlers, priority, enabled, soft, masked, call,
                 off>>

\* dispatch_vector, dispatch_current_irq, dispatch_current_interrupt: claim the
\* line and, if the table has room for it, look its handler up.  From here to
\* end_of_interrupt the context is "isr" and, if there is a handler, it may
\* call the trait.
dispatch(l) ==
  /\ Interruptible /\ published /\ Deliverable(l)
  /\ pending' = pending \ {l}
  /\ active' = active \cup {l}
  /\ IF borrowed /\ Valid(l) THEN panicked' = TRUE /\ UNCHANGED <<ctx, servicing>>
     ELSE /\ ctx' = "isr"
          /\ servicing' = [line |-> l, handler |-> handlers[l]]
          /\ UNCHANGED panicked
  /\ UNCHANGED <<fixed, published, handlers, borrowed, priority, enabled, soft,
                 masked, call, off>>

\* With no controller published dispatch returns at once.  The APIC has already
\* put the vector in service; at a GIC or PLIC nothing was claimed and the
\* interrupt is taken again, a stuttering step.
dispatch_unpublished(l) ==
  /\ Interruptible /\ ~published /\ Deliverable(l) /\ arch = "x86_64"
  /\ pending' = pending \ {l}
  /\ active' = active \cup {l}
  /\ UNCHANGED <<fixed, published, handlers, borrowed, priority, enabled, soft,
                 masked, ctx, servicing, call, panicked, off>>

\* An SGI is below FIRST_USABLE_INTID and is only ended; an SSI is cleared.
dispatch_soft ==
  /\ Interruptible /\ soft
  /\ arch = "arm64" => published /\ active = {}
  /\ soft' = FALSE
  /\ UNCHANGED <<fixed, published, handlers, borrowed, priority, enabled,
                 pending, active, masked, ctx, servicing, call, panicked, off>>

\* Slip: only an interrupt that found a handler is ended.
end_if_handled ==
  /\ ~panicked /\ ctx = "isr" /\ call["isr"] = Idle
  /\ active' = IF servicing.handler = NoHandler THEN active ELSE active \ {servicing.line}
  /\ ctx' = "thread"
  /\ servicing' = NotServicing
  /\ UNCHANGED <<fixed, published, handlers, borrowed, priority, enabled,
                 pending, soft, masked, call, panicked, off>>

\* The handler has returned.  A PLIC ignores the completion of a source that is
\* not enabled.
end_of_interrupt ==
  /\ ~panicked /\ ctx = "isr" /\ call["isr"] = Idle
  /\ active' = IF arch = "riscv64" /\ servicing.line \notin enabled
               THEN active ELSE active \ {servicing.line}
  /\ ctx' = "thread"
  /\ servicing' = NotServicing
  /\ UNCHANGED <<fixed, published, handlers, borrowed, priority, enabled,
                 pending, soft, masked, call, panicked, off>>

Halted == panicked /\ UNCHANGED vars

Next ==
  \/ \E c \in Contexts :
       \/ \E l \in Lines :
            \/ \E h \in Handlers : register_irq(c, l, h)
            \/ unregister_irq(c, l)
            \/ mask_irq(c, l)
            \/ unmask_irq(c, l)
            \/ \E t \in Targets : send_ipi(c, t, l)
       \/ Store(c) \/ SetLine(c) \/ set_enabled(c)
  \/ set_global_controller \/ ToggleMask
  \/ \E l \in Lines : Raise(l) \/ dispatch(l) \/ dispatch_unpublished(l)
  \/ dispatch_soft \/ end_of_interrupt \/ Halted

\* A call that has begun and a handler that runs come to their end, and the
\* core takes an interrupt that can be delivered whenever the kernel unmasks.
Fairness ==
  /\ \A c \in Contexts : WF_vars(Store(c) \/ SetLine(c) \/ set_enabled(c))
  /\ WF_vars(end_of_interrupt)
  /\ \A l \in Lines : SF_vars(dispatch(l))

Spec == Init /\ [][Next]_vars /\ Fairness

----------------------------------------------------------------------------
(***************************************************************************)
(* Properties.                                                             *)
(***************************************************************************)
Calls ==
  {Idle} \cup [pc : {"store", "line", "write"}, line : Lines, on : BOOLEAN,
               handler : Handlers \cup {NoHandler}, word : SUBSET Lines]

\* Types: every table, register set and call record keeps its range.
TypeOK ==
  /\ arch \in Archs
  /\ guarded \in Kernels
  /\ published \in BOOLEAN
  /\ handlers \in [Lines -> Handlers \cup {NoHandler}]
  /\ borrowed \in BOOLEAN
  /\ priority \subseteq Lines
  /\ enabled \subseteq Lines
  /\ pending \subseteq Lines
  /\ soft \in BOOLEAN
  /\ active \subseteq Lines
  /\ masked \in BOOLEAN
  /\ ctx \in Contexts
  /\ servicing \in {NotServicing} \cup
                   [line : Lines, handler : Handlers \cup {NoHandler}]
  /\ call \in [Contexts -> Calls]
  /\ panicked \in BOOLEAN
  /\ off \subseteq Lines

\* A kernel that masks interrupts around its calls never meets a failed borrow
\* of the handler table, whatever its handlers call: register_irq,
\* unregister_irq and dispatch drop their borrows before other code runs.
NoBorrowPanic == guarded => ~panicked

\* A line that was masked or unregistered stays silent until it is unmasked or
\* registered again: at a GIC always, at a PLIC if no interrupt can come
\* between the read and the write of the enable word.
MaskHolds ==
  arch = "arm64" \/ (arch = "riscv64" /\ guarded) => off \cap enabled = {}

\* A line whose interrupts the controller passes on.
Routed(l) ==
  l \in pending \cap enabled /\ (arch = "riscv64" => l \in priority)

\* No interrupt is left unfinished when dispatch returns, so the APIC and the
\* GIC go on delivering; for a kernel that publishes the controller before it
\* unmasks, since dispatch_vector ends nothing without one.
EveryClaimEnded ==
  arch # "riscv64" /\ ctx = "thread" /\ ~panicked /\ published /\ guarded
    => active = {}

\* An interrupt raised on a line that is let through reaches dispatch, if the
\* kernel keeps coming back to run unmasked with no other line raised.  At a
\* PLIC the line must also be free of an open claim (see UnmaskRedelivers).
EveryIrqDispatched ==
  \A l \in Lines :
    /\ guarded
    /\ []<>(~masked /\ ctx = "thread" /\ pending \subseteq {l})
    /\ arch = "riscv64" => []<>(l \notin active)
    => (Routed(l) ~> (l \notin pending \/ l \notin enabled))

----------------------------------------------------------------------------
(***************************************************************************)
(* What the documentation says and the code does not do.                   *)
(***************************************************************************)

\* hal-core/src/interrupt.rs:122: unmask_irq "Unmasks (re-enables delivery of)
\* a previously masked" line: what is raised on it reaches dispatch.
UnmaskRedelivers ==
  \A l \in Lines :
    guarded /\ []<>(~masked /\ ctx = "thread" /\ pending \subseteq {l})
      => (Routed(l) ~> (l \notin pending \/ l \notin enabled))
=============================================================================
