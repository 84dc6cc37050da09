-------------------------- MODULE InterruptProofs --------------------------
(***************************************************************************)
(* Proofs of the safety properties of InterruptCtrl, for every set of      *)
(* lines, handlers and IPI targets.                                        *)
(***************************************************************************)
EXTENDS InterruptCtrl, TLAPS

(***************************************************************************)
(* Type correctness.                                                       *)
(***************************************************************************)

\* A call record, as register_irq and its siblings make it, is well typed.
LEMMA CallType ==
  ASSUME NEW pc \in {"store", "line", "write"}, NEW l \in Lines, NEW on \in BOOLEAN,
         NEW h \in Handlers \cup {NoHandler}
  PROVE  Call(pc, l, on, h) \in Calls
BY DEF Call, Calls

\* A call that is past its first step has a line, a direction and a handler.
LEMMA CallFields ==
  ASSUME TypeOK, NEW c \in Contexts, call[c].pc \in {"store", "line", "write"}
  PROVE  /\ call[c] \in [pc : {"store", "line", "write"}, line : Lines, on : BOOLEAN,
                         handler : Handlers \cup {NoHandler}, word : SUBSET Lines]
         /\ call[c].line \in Lines /\ call[c].on \in BOOLEAN
         /\ call[c].handler \in Handlers \cup {NoHandler}
         /\ call[c].word \subseteq Lines
<1>1. call[c] \in Calls /\ call[c] # Idle
  BY DEF TypeOK, Idle
<1> QED BY <1>1 DEF Calls

\* A freshly constructed controller is well typed.
LEMMA InitTypeOK == Init => TypeOK
<1> SUFFICES ASSUME Init PROVE TypeOK
  OBVIOUS
<1>1. call \in [Contexts -> Calls]
  BY DEF Init, Calls
<1>2. enabled \subseteq Lines
  BY DEF Init
<1>3. handlers \in [Lines -> Handlers \cup {NoHandler}]
  BY DEF Init
<1> QED BY <1>1, <1>2, <1>3 DEF Init, TypeOK, Contexts

\* Every step of the controller, its devices and the kernel keeps the types.
LEMMA NextTypeOK == TypeOK /\ [Next]_vars => TypeOK'
<1> SUFFICES ASSUME TypeOK, [Next]_vars PROVE TypeOK'
  OBVIOUS
<1>1. ASSUME Panic PROVE TypeOK'
  BY <1>1 DEF Panic, TypeOK, fixed, hw
<1>2. ASSUME NEW c \in Contexts, NEW r \in Calls, off' \subseteq Lines, BorrowMut(c, r)
      PROVE  TypeOK'
  BY <1>2 DEF BorrowMut, TypeOK, fixed, hw
<1>3. ASSUME NEW c \in Contexts, NEW l \in Lines, NEW h \in Handlers, register_irq(c, l, h)
      PROVE  TypeOK'
  <2>1. Call("store", l, TRUE, h) \in Calls /\ off \ {l} \subseteq Lines
    BY CallType DEF TypeOK
  <2> QED BY <1>1, <1>2, <1>3, <2>1 DEF register_irq
<1>4. ASSUME NEW c \in Contexts, NEW l \in Lines, unregister_irq(c, l) PROVE TypeOK'
  <2>1. Call("store", l, FALSE, NoHandler) \in Calls /\ off \subseteq Lines
    BY CallType DEF TypeOK
  <2> QED BY <1>1, <1>2, <1>4, <2>1 DEF unregister_irq
<1>5. ASSUME NEW c \in Contexts, NEW l \in Lines, mask_irq(c, l) \/ unmask_irq(c, l)
      PROVE  TypeOK'
  <2>1. \A on \in BOOLEAN : Call("line", l, on, NoHandler) \in Calls
    BY CallType
  <2> QED BY <1>5, <2>1 DEF mask_irq, unmask_irq, TypeOK, fixed, hw
<1>6. ASSUME NEW c \in Contexts, NEW l \in Lines, NEW t \in Targets, send_ipi(c, t, l)
      PROVE  TypeOK'
  <2>1. pending' \subseteq Lines
    BY <1>6 DEF send_ipi, TypeOK
  <2>2. soft' \in BOOLEAN
    BY <1>6 DEF send_ipi, TypeOK
  <2> QED BY <1>6, <2>1, <2>2 DEF send_ipi, TypeOK, fixed
<1>7. ASSUME NEW c \in Contexts, Store(c) PROVE TypeOK'
  <2>1. /\ call[c].line \in Lines
        /\ call[c].handler \in Handlers \cup {NoHandler}
        /\ [call[c] EXCEPT !.pc = "line"] \in Calls
    BY <1>7, CallFields DEF Store, Calls
  <2>2. handlers' \in [Lines -> Handlers \cup {NoHandler}]
    BY <1>7, <2>1 DEF Store, TypeOK
  <2>3. priority' \subseteq Lines
    BY <1>7, <2>1 DEF Store, TypeOK
  <2>4. call' \in [Contexts -> Calls] /\ off' \subseteq Lines
    BY <1>7, <2>1 DEF Store, Returns, TypeOK, Calls
  <2> QED BY <1>7, <2>2, <2>3, <2>4 DEF Store, TypeOK, fixed
<1>8. ASSUME NEW c \in Contexts, SetLine(c) PROVE TypeOK'
  <2>1. /\ call[c].line \in Lines
        /\ \A w \in SUBSET Lines : [call[c] EXCEPT !.pc = "write", !.word = w] \in Calls
    BY <1>8, CallFields DEF SetLine, Calls
  <2>2. enabled' \subseteq Lines /\ off' \subseteq Lines
    BY <1>8, <2>1 DEF SetLine, SetLine_x86_64, SetLine_arm64, SetLine_riscv64, With,
                      Returns, TypeOK
  <2>3. call' \in [Contexts -> Calls]
    <3>1. \/ call' = [call EXCEPT ![c] = Idle]
          \/ call' = [call EXCEPT ![c] = [call[c] EXCEPT !.pc = "write", !.word = enabled]]
      BY <1>8 DEF SetLine, SetLine_x86_64, SetLine_arm64, SetLine_riscv64, Returns, TypeOK
    <3>2. Idle \in Calls /\ [call[c] EXCEPT !.pc = "write", !.word = enabled] \in Calls
      BY <2>1 DEF Calls, TypeOK
    <3> QED BY <3>1, <3>2 DEF TypeOK
  <2> QED BY <1>8, <2>2, <2>3 DEF SetLine, TypeOK, fixed
<1>9. ASSUME NEW c \in Contexts, set_enabled(c) PROVE TypeOK'
  <2>1. call[c].line \in Lines /\ call[c].word \subseteq Lines
    BY <1>9, CallFields DEF set_enabled
  <2>2. enabled' \subseteq Lines /\ off' \subseteq Lines
    BY <1>9, <2>1 DEF set_enabled, With, Returns, TypeOK
  <2>3. call' \in [Contexts -> Calls]
    BY <1>9 DEF set_enabled, Returns, TypeOK, Calls
  <2> QED BY <1>9, <2>2, <2>3 DEF set_enabled, TypeOK, fixed
<1>10. CASE set_global_controller
  BY <1>10 DEF set_global_controller, TypeOK, fixed, hw
<1>11. CASE ToggleMask
  BY <1>11 DEF ToggleMask, TypeOK, fixed, hw
<1>12. ASSUME NEW l \in Lines, Raise(l) PROVE TypeOK'
  BY <1>12 DEF Raise, TypeOK, fixed
<1>13. ASSUME NEW l \in Lines, dispatch(l) PROVE TypeOK'
  <2>1. [line |-> l, handler |-> handlers[l]] \in [line : Lines, handler : Handlers \cup {NoHandler}]
    BY DEF TypeOK
  <2>2. ctx' \in Contexts /\ servicing' \in {NotServicing} \cup
                               [line : Lines, handler : Handlers \cup {NoHandler}]
    BY <1>13, <2>1 DEF dispatch, TypeOK, Contexts
  <2>3. panicked' \in BOOLEAN
    BY <1>13 DEF dispatch, TypeOK
  <2>4. pending' \subseteq Lines /\ active' \subseteq Lines
    BY <1>13 DEF dispatch, TypeOK
  <2> QED BY <1>13, <2>2, <2>3, <2>4 DEF dispatch, TypeOK, fixed
<1>14. ASSUME NEW l \in Lines, dispatch_unpublished(l) PROVE TypeOK'
  BY <1>14 DEF dispatch_unpublished, TypeOK, fixed
<1>15. CASE dispatch_soft
  BY <1>15 DEF dispatch_soft, TypeOK, fixed
<1>16. CASE end_of_interrupt
  <2>1. active' \subseteq Lines
    BY <1>16 DEF end_of_interrupt, TypeOK
  <2> QED BY <1>16, <2>1 DEF end_of_interrupt, TypeOK, fixed, Contexts
<1>17. CASE Halted \/ UNCHANGED vars
  BY <1>17 DEF Halted, vars, TypeOK, fixed, hw
<1> QED
  BY <1>3, <1>4, <1>5, <1>6, <1>7, <1>8, <1>9, <1>10, <1>11, <1>12, <1>13, <1>14,
     <1>15, <1>16, <1>17 DEF Next

\* The handler table, the register sets and the calls in progress keep their
\* ranges in every behaviour.
THEOREM TypeCorrect == Spec => []TypeOK
BY InitTypeOK, NextTypeOK, PTL DEF Spec

(***************************************************************************)
(* The inductive invariant.  A kernel that masks interrupts around its     *)
(* calls has at most one call in progress, that of the context that runs;  *)
(* a borrow belongs to a call that is about to store; the enable word a    *)
(* call has read is still the controller's; what is in service is what     *)
(* dispatch is serving.                                                    *)
(***************************************************************************)
OneCall ==
  guarded =>
    /\ \A c \in Contexts : call[c] # Idle => ctx = c
    /\ call["thread"] # Idle => masked
    /\ ~masked => published

BorrowHeld == borrowed => \E c \in Contexts : call[c].pc = "store"

WordCurrent ==
  guarded => \A c \in Contexts : call[c].pc = "write" => call[c].word = enabled

InService ==
  guarded /\ arch # "riscv64" =>
    active = IF ctx = "thread" THEN {} ELSE {servicing.line}

WriteIsRiscv == \A c \in Contexts : call[c].pc = "write" => arch = "riscv64"

IInv == /\ TypeOK
        /\ OneCall
        /\ BorrowHeld
        /\ WordCurrent
        /\ InService
        /\ WriteIsRiscv
        /\ MaskHolds
        /\ NoBorrowPanic

\* A freshly constructed controller satisfies the invariant.
LEMMA InitIInv == Init => IInv
<1> SUFFICES ASSUME Init PROVE IInv
  OBVIOUS
<1>1. \A c \in Contexts : call[c] = Idle /\ call[c].pc = "idle"
  BY DEF Init, Idle
<1>2. "thread" \in Contexts
  BY DEF Contexts
<1> QED
  BY <1>1, <1>2, InitTypeOK DEF Init, IInv, OneCall, BorrowHeld, WordCurrent, InService,
                         WriteIsRiscv, MaskHolds, NoBorrowPanic

\* Under a guarded kernel a context that starts a call, or dispatch, finds no
\* call in progress and so no borrow.
LEMMA NoBorrowAtCall ==
  ASSUME IInv, guarded, NEW c \in Contexts, Calling(c)
  PROVE  ~borrowed /\ \A b \in Contexts : call[b] = Idle
<1>1. \A b \in Contexts : call[b] = Idle
  BY DEF IInv, OneCall, Calling, Contexts
<1> QED BY <1>1 DEF IInv, BorrowHeld, Idle

\* The same of an interrupt that arrives.
LEMMA NoBorrowAtInterrupt ==
  ASSUME IInv, guarded, Interruptible
  PROVE  ~borrowed /\ \A b \in Contexts : call[b] = Idle
<1>1. \A b \in Contexts : call[b] = Idle
  BY DEF IInv, OneCall, Interruptible, Contexts
<1> QED BY <1>1 DEF IInv, BorrowHeld, Idle

\* Steps that leave the calls, the contexts and the controller's enables alone.
LEMMA QuietStep ==
  ASSUME IInv, TypeOK',
         UNCHANGED <<arch, guarded, borrowed, enabled, active, ctx, servicing, call,
                     panicked, off>>,
         guarded => (~masked' => published'),
         guarded => (call["thread"] # Idle => masked')
  PROVE  IInv'
BY DEF IInv, OneCall, BorrowHeld, WordCurrent, InService, WriteIsRiscv, MaskHolds,
       NoBorrowPanic

\* A call that begins: register_irq, unregister_irq, mask_irq and unmask_irq
\* only record what they are about to do, and may take the borrow.
LEMMA BeginIInv ==
  ASSUME IInv, TypeOK', NEW c \in Contexts, NEW r \in Calls, Calling(c),
         call' = [call EXCEPT ![c] = r], r.pc \in {"store", "line"},
         borrowed' => (borrowed \/ r.pc = "store"),
         off' \subseteq off,
         UNCHANGED <<arch, guarded, published, enabled, active, masked, ctx, servicing,
                     panicked>>
  PROVE  IInv'
<1> USE DEF IInv
<1>1. \A b \in Contexts : call'[b] = IF b = c THEN r ELSE call[b]
  BY DEF TypeOK
<1>2. OneCall'
  BY <1>1 DEF OneCall, Calling, Contexts
<1>3. BorrowHeld'
  <2>1. CASE r.pc = "store"
    BY <1>1, <2>1 DEF BorrowHeld
  <2>2. CASE r.pc # "store"
    <3> SUFFICES ASSUME borrowed' PROVE \E b \in Contexts : call'[b].pc = "store"
      BY DEF BorrowHeld
    <3>1. PICK b \in Contexts : call[b].pc = "store"
      BY <2>2 DEF BorrowHeld
    <3>2. b # c
      BY <3>1 DEF Calling, Idle
    <3> QED BY <1>1, <3>1, <3>2
  <2> QED BY <2>1, <2>2
<1>4. WordCurrent' /\ WriteIsRiscv'
  BY <1>1 DEF WordCurrent, WriteIsRiscv
<1>5. InService' /\ MaskHolds' /\ NoBorrowPanic'
  BY DEF InService, MaskHolds, NoBorrowPanic
<1> QED BY <1>2, <1>3, <1>4, <1>5

\* A panic needs a borrow, which a guarded kernel's calls never find.
LEMMA PanicIInv ==
  ASSUME IInv, TypeOK', NEW c \in Contexts, Calling(c), borrowed, Panic
  PROVE  IInv'
<1>1. ~guarded
  BY NoBorrowAtCall
<1> QED
  BY <1>1 DEF IInv, Panic, fixed, hw, OneCall, BorrowHeld, WordCurrent, InService,
              WriteIsRiscv, MaskHolds, NoBorrowPanic

\* The further steps of a call keep it the only one.
LEMMA OneCallContinues ==
  ASSUME IInv, NEW c \in Contexts, ctx = c, call[c] # Idle,
         \A b \in Contexts : b # c => call'[b] = call[b],
         UNCHANGED <<guarded, published, masked, ctx>>
  PROVE  OneCall'
<1> SUFFICES ASSUME guarded
             PROVE  /\ \A b \in Contexts : call'[b] # Idle => ctx' = b
                    /\ call'["thread"] # Idle => masked'
                    /\ ~masked' => published'
  BY DEF OneCall
<1>1. /\ \A b \in Contexts : call[b] # Idle => ctx = b
      /\ call["thread"] # Idle => masked
      /\ ~masked => published
  BY DEF IInv, OneCall
<1>2. \A b \in Contexts : call'[b] # Idle => call[b] # Idle
  OBVIOUS
<1>3. "thread" \in Contexts
  BY DEF Contexts
<1> QED BY <1>1, <1>2, <1>3

\* The table is written and the borrow dropped.
LEMMA StoreIInv == ASSUME IInv, TypeOK', NEW c \in Contexts, Store(c) PROVE IInv'
<1> USE DEF IInv
<1>1. UNCHANGED <<arch, guarded, published, enabled, active, masked, ctx, servicing, panicked>>
  BY DEF Store, fixed
<1>2. /\ \A b \in Contexts : b # c => call'[b] = call[b]
      /\ call'[c].pc \in {"idle", "line"}
      /\ call[c] # Idle /\ ctx = c
  <2>1. call[c].pc = "store" /\ call[c] # Idle
    BY DEF Store, Idle
  <2>2. CASE arch = "x86_64"
    BY <2>1, <2>2 DEF Store, Returns, Idle, TypeOK
  <2>3. CASE arch # "x86_64"
    <3>1. call' = [call EXCEPT ![c].pc = "line"]
      BY <2>3 DEF Store
    <3>2. call[c] \in [pc : {"store", "line", "write"}, line : Lines, on : BOOLEAN,
                       handler : Handlers \cup {NoHandler}, word : SUBSET Lines]
      BY <2>1, CallFields
    <3> QED BY <2>1, <3>1, <3>2 DEF Store, TypeOK
  <2> QED BY <2>2, <2>3
<1>3. OneCall'
  BY <1>1, <1>2, OneCallContinues
<1>4. BorrowHeld'
  BY DEF Store, BorrowHeld
<1>5. WordCurrent' /\ WriteIsRiscv'
  BY <1>1, <1>2 DEF WordCurrent, WriteIsRiscv
<1>6. MaskHolds'
  BY <1>1 DEF Store, MaskHolds
<1> QED BY <1>1, <1>3, <1>4, <1>5, <1>6 DEF InService, NoBorrowPanic

\* What Returns does to the calls.
LEMMA ReturnsCall ==
  ASSUME TypeOK, NEW c \in Contexts, NEW l, NEW on, Returns(c, l, on)
  PROVE  /\ \A b \in Contexts : b # c => call'[b] = call[b]
         /\ call'[c] = Idle /\ call'[c].pc = "idle"
BY DEF Returns, TypeOK, Idle

\* Setting a line and recording it in the history agree.
LEMMA LineAndHistoryAgree ==
  ASSUME NEW c \in Contexts, NEW l, NEW on \in BOOLEAN, Returns(c, l, on),
         enabled' = With(enabled, l, on), off \cap enabled = {}
  PROVE  off' \cap enabled' = {}
BY DEF Returns, With

\* A borrow is not touched by the steps that follow the store.
LEMMA BorrowAfterStore ==
  ASSUME IInv, NEW c \in Contexts, call[c].pc # "store", UNCHANGED borrowed,
         \A b \in Contexts : b # c => call'[b] = call[b]
  PROVE  BorrowHeld'
BY DEF IInv, BorrowHeld

\* The line is enabled or disabled, or at a PLIC the enable word is read.
LEMMA SetLineIInv == ASSUME IInv, TypeOK', NEW c \in Contexts, SetLine(c) PROVE IInv'
<1> USE DEF IInv
<1>1. UNCHANGED <<arch, guarded, published, borrowed, active, masked, ctx, servicing, panicked>>
  BY DEF SetLine, fixed
<1>2. call[c].pc = "line" /\ call[c] # Idle /\ ctx = c /\ call[c].on \in BOOLEAN
  BY CallFields DEF SetLine, Idle
<1>3. CASE arch # "riscv64"
  <2>1. Returns(c, call[c].line, call[c].on)
    BY <1>3 DEF SetLine, SetLine_x86_64, SetLine_arm64, SetLine_riscv64
  <2>2. /\ \A b \in Contexts : b # c => call'[b] = call[b]
        /\ call'[c] = Idle /\ call'[c].pc = "idle"
    BY <2>1, ReturnsCall
  <2>3. OneCall'
    BY <1>1, <1>2, <2>2, OneCallContinues
  <2>7. WriteIsRiscv'
    BY <1>1, <2>2 DEF WriteIsRiscv
  <2>4. BorrowHeld'
    BY <1>1, <1>2, <2>2, BorrowAfterStore
  <2>5. WordCurrent'
    BY <1>1, <1>3, <2>2 DEF WordCurrent, WriteIsRiscv
  <2>6. MaskHolds'
    <3>1. CASE arch = "arm64"
      BY <1>1, <1>2, <2>1, <3>1, LineAndHistoryAgree
         DEF SetLine, SetLine_x86_64, SetLine_arm64, SetLine_riscv64, MaskHolds
    <3> QED BY <1>1, <1>3, <3>1 DEF MaskHolds
  <2> QED BY <1>1, <2>3, <2>4, <2>5, <2>6, <2>7 DEF InService, NoBorrowPanic
<1>4. CASE arch = "riscv64"
  <2>1. /\ call' = [call EXCEPT ![c].pc = "write", ![c].word = enabled]
        /\ UNCHANGED <<enabled, off>>
    BY <1>4 DEF SetLine, SetLine_x86_64, SetLine_arm64, SetLine_riscv64
  <2>2. call[c] \in [pc : {"store", "line", "write"}, line : Lines, on : BOOLEAN,
                     handler : Handlers \cup {NoHandler}, word : SUBSET Lines]
    BY <1>2, CallFields
  <2>3. /\ \A b \in Contexts : b # c => call'[b] = call[b]
        /\ call'[c].word = enabled
    BY <2>1, <2>2 DEF TypeOK
  <2>4. OneCall'
    BY <1>1, <1>2, <2>3, OneCallContinues
  <2>5. BorrowHeld'
    BY <1>1, <1>2, <2>3, BorrowAfterStore
  <2>6. WordCurrent' /\ WriteIsRiscv'
    BY <1>1, <1>4, <2>1, <2>3 DEF WordCurrent, WriteIsRiscv
  <2> QED BY <1>1, <2>1, <2>4, <2>5, <2>6 DEF InService, MaskHolds, NoBorrowPanic
<1> QED BY <1>3, <1>4

\* The PLIC's enable word is written back; no one wrote it since it was read.
LEMMA SetEnabledIInv == ASSUME IInv, TypeOK', NEW c \in Contexts, set_enabled(c) PROVE IInv'
<1> USE DEF IInv
<1>1. UNCHANGED <<arch, guarded, published, borrowed, active, masked, ctx, servicing, panicked>>
  BY DEF set_enabled, fixed
<1>2. /\ call[c].pc = "write" /\ call[c] # Idle /\ ctx = c /\ call[c].on \in BOOLEAN
      /\ arch = "riscv64"
  BY CallFields DEF set_enabled, Idle, WriteIsRiscv
<1>3. /\ \A b \in Contexts : b # c => call'[b] = call[b]
      /\ call'[c] = Idle /\ call'[c].pc = "idle"
  BY ReturnsCall DEF set_enabled
<1>4. OneCall'
  BY <1>1, <1>2, <1>3, OneCallContinues
<1>8. WriteIsRiscv'
  BY <1>1, <1>3 DEF WriteIsRiscv
<1>5. BorrowHeld'
  BY <1>1, <1>2, <1>3, BorrowAfterStore
<1>6. WordCurrent'
  <2> SUFFICES ASSUME guarded, NEW b \in Contexts, call'[b].pc = "write" PROVE FALSE
    BY <1>1 DEF WordCurrent
  <2>1. b # c /\ call[b] # Idle
    BY <1>3 DEF Idle
  <2> QED BY <1>2, <2>1 DEF OneCall
<1>7. MaskHolds'
  <2> SUFFICES ASSUME guarded PROVE off' \cap enabled' = {}
    BY <1>1, <1>2 DEF MaskHolds
  <2>1. enabled' = With(enabled, call[c].line, call[c].on)
    BY <1>2 DEF set_enabled, WordCurrent
  <2>2. off \cap enabled = {}
    BY <1>2 DEF MaskHolds
  <2> QED BY <1>2, <2>1, <2>2, LineAndHistoryAgree DEF set_enabled
<1> QED BY <1>1, <1>4, <1>5, <1>6, <1>7, <1>8 DEF InService, NoBorrowPanic

\* Dispatch claims a line; at an APIC or a GIC nothing else was in service.
LEMMA DispatchIInv == ASSUME IInv, TypeOK', NEW l \in Lines, dispatch(l) PROVE IInv'
<1> USE DEF IInv, dispatch
<1>1. UNCHANGED <<arch, guarded, published, borrowed, enabled, masked, call, off>>
  BY DEF fixed
<1>2. BorrowHeld' /\ WordCurrent' /\ WriteIsRiscv' /\ MaskHolds'
  BY <1>1 DEF BorrowHeld, WordCurrent, WriteIsRiscv, MaskHolds
<1>3. CASE ~guarded
  BY <1>1, <1>2, <1>3 DEF OneCall, InService, NoBorrowPanic
<1>4. CASE guarded
  <2>1. ~borrowed /\ \A b \in Contexts : call[b] = Idle
    BY <1>4, NoBorrowAtInterrupt
  <2>2. ctx' = "isr" /\ servicing'.line = l /\ UNCHANGED panicked
    BY <2>1
  <2>3. OneCall' /\ NoBorrowPanic'
    BY <1>1, <1>4, <2>1, <2>2 DEF OneCall, NoBorrowPanic, Contexts
  <2>4. InService'
    <3> SUFFICES ASSUME arch # "riscv64" PROVE active' = {l}
      BY <1>1, <2>2 DEF InService
    <3>1. active = {}
      BY <1>4 DEF InService, Interruptible
    <3> QED BY <3>1
  <2> QED BY <1>2, <2>3, <2>4
<1> QED BY <1>3, <1>4

\* A guarded kernel publishes the controller before it unmasks.
LEMMA DispatchUnpublishedIInv ==
  ASSUME IInv, TypeOK', NEW l \in Lines, dispatch_unpublished(l)
  PROVE  IInv'
<1>1. ~guarded
  BY DEF IInv, OneCall, dispatch_unpublished, Interruptible
<1> QED
  BY <1>1 DEF IInv, dispatch_unpublished, fixed, OneCall, BorrowHeld, WordCurrent,
              InService, WriteIsRiscv, MaskHolds, NoBorrowPanic

\* The end of interrupt takes back the claim that dispatch made.
LEMMA EndIInv == ASSUME IInv, TypeOK', end_of_interrupt PROVE IInv'
<1> USE DEF IInv, end_of_interrupt
<1>1. UNCHANGED <<arch, guarded, published, borrowed, enabled, masked, call, panicked, off>>
  BY DEF fixed
<1>2. BorrowHeld' /\ WordCurrent' /\ WriteIsRiscv' /\ MaskHolds' /\ NoBorrowPanic'
  BY <1>1 DEF BorrowHeld, WordCurrent, WriteIsRiscv, MaskHolds, NoBorrowPanic
<1>3. OneCall'
  BY <1>1 DEF OneCall, Contexts
<1>4. InService'
  BY <1>1 DEF InService
<1> QED BY <1>2, <1>3, <1>4

\* Every step keeps the invariant.
LEMMA NextIInv == ASSUME IInv, [Next]_vars PROVE IInv'
<1>1. TypeOK'
  BY NextTypeOK DEF IInv
<1>2. ASSUME NEW c \in Contexts, NEW l \in Lines, NEW h \in Handlers, register_irq(c, l, h)
      PROVE  IInv'
  <2> DEFINE r == Call("store", l, TRUE, h)
  <2>1. r \in Calls /\ r.pc = "store"
    BY CallType DEF Call
  <2>2. CASE borrowed
    BY <1>1, <1>2, <2>2, PanicIInv DEF register_irq
  <2>3. CASE ~borrowed
    <3> HIDE DEF r
    <3>1. BorrowMut(c, r) /\ off' \subseteq off /\ Calling(c)
      BY <1>2, <2>3 DEF register_irq, r
    <3> QED BY <1>1, <2>1, <3>1, BeginIInv DEF BorrowMut, fixed, hw
  <2> QED BY <2>2, <2>3
<1>3. ASSUME NEW c \in Contexts, NEW l \in Lines, unregister_irq(c, l) PROVE IInv'
  <2> DEFINE r == Call("store", l, FALSE, NoHandler)
  <2>1. r \in Calls /\ r.pc = "store"
    BY CallType DEF Call
  <2>2. CASE borrowed
    BY <1>1, <1>3, <2>2, PanicIInv DEF unregister_irq
  <2>3. CASE ~borrowed
    <3> HIDE DEF r
    <3>1. BorrowMut(c, r) /\ off' \subseteq off /\ Calling(c)
      BY <1>3, <2>3 DEF unregister_irq, r
    <3> QED BY <1>1, <2>1, <3>1, BeginIInv DEF BorrowMut, fixed, hw
  <2> QED BY <2>2, <2>3
<1>4. ASSUME NEW c \in Contexts, NEW l \in Lines, mask_irq(c, l) PROVE IInv'
  <2> DEFINE r == Call("line", l, FALSE, NoHandler)
  <2>1. r \in Calls /\ r.pc = "line"
    BY CallType DEF Call
  <2> HIDE DEF r
  <2>2. call' = [call EXCEPT ![c] = r] /\ off' \subseteq off /\ Calling(c)
    BY <1>4 DEF mask_irq, r
  <2>3. UNCHANGED <<arch, guarded, published, borrowed, enabled, active, masked, ctx,
                    servicing, panicked>>
    BY <1>4 DEF mask_irq, fixed, hw
  <2> QED BY <1>1, <2>1, <2>2, <2>3, BeginIInv
<1>15. ASSUME NEW c \in Contexts, NEW l \in Lines, unmask_irq(c, l) PROVE IInv'
  <2> DEFINE r == Call("line", l, TRUE, NoHandler)
  <2>1. r \in Calls /\ r.pc = "line"
    BY CallType DEF Call
  <2> HIDE DEF r
  <2>2. call' = [call EXCEPT ![c] = r] /\ off' \subseteq off /\ Calling(c)
    BY <1>15 DEF unmask_irq, r
  <2>3. UNCHANGED <<arch, guarded, published, borrowed, enabled, active, masked, ctx,
                    servicing, panicked>>
    BY <1>15 DEF unmask_irq, fixed, hw
  <2> QED BY <1>1, <2>1, <2>2, <2>3, BeginIInv
<1>5. ASSUME NEW c \in Contexts, Store(c) \/ SetLine(c) \/ set_enabled(c) PROVE IInv'
  BY <1>1, <1>5, StoreIInv, SetLineIInv, SetEnabledIInv
<1>6. guarded => (~masked => published) /\ (call["thread"] # Idle => masked)
  BY DEF IInv, OneCall
<1>7. ASSUME NEW c \in Contexts, NEW l \in Lines, NEW t \in Targets, send_ipi(c, t, l)
      PROVE  IInv'
  BY <1>1, <1>6, <1>7, QuietStep DEF send_ipi, fixed
<1>8. CASE set_global_controller
  BY <1>1, <1>6, <1>8, QuietStep DEF set_global_controller, fixed, hw
<1>9. CASE ToggleMask
  <2>1. call["thread"] = Idle
    BY <1>9 DEF ToggleMask
  <2>2. guarded => published'
    BY <1>9 DEF ToggleMask
  <2>3. UNCHANGED <<arch, guarded, borrowed, enabled, active, ctx, servicing, call,
                    panicked, off>>
    BY <1>9 DEF ToggleMask, fixed, hw
  <2> QED BY <1>1, <2>1, <2>2, <2>3, QuietStep
<1>10. ASSUME NEW l \in Lines, Raise(l) PROVE IInv'
  BY <1>1, <1>6, <1>10, QuietStep DEF Raise, fixed
<1>11. CASE dispatch_soft
  BY <1>1, <1>6, <1>11, QuietStep DEF dispatch_soft, fixed
<1>12. CASE Halted \/ UNCHANGED vars
  BY <1>1, <1>6, <1>12, QuietStep DEF Halted, vars, fixed, hw
<1>13. ASSUME NEW l \in Lines, dispatch(l) \/ dispatch_unpublished(l) PROVE IInv'
  BY <1>1, <1>13, DispatchIInv, DispatchUnpublishedIInv
<1>14. CASE end_of_interrupt
  BY <1>1, <1>14, EndIInv
<1> QED
  BY <1>2, <1>3, <1>4, <1>5, <1>7, <1>8, <1>9, <1>10, <1>11, <1>12, <1>13, <1>14, <1>15 DEF Next

\* The invariant holds in every state of every behaviour.
THEOREM Invariance == Spec => []IInv
<1>1. Init => IInv
  BY InitIInv
<1>2. IInv /\ [Next]_vars => IInv'
  BY NextIInv
<1> QED BY <1>1, <1>2, PTL DEF Spec

\* A kernel that masks interrupts around its calls never hits the RefCell panic,
\* whatever its handlers register, unregister or mask.
THEOREM BorrowsNeverCollide == Spec => []NoBorrowPanic
<1>1. IInv => NoBorrowPanic
  BY DEF IInv
<1> QED BY <1>1, Invariance, PTL

\* A masked or unregistered line stays disabled at a GIC, and at a PLIC whose
\* enable word is read and written with interrupts masked.
THEOREM MaskIsKept == Spec => []MaskHolds
<1>1. IInv => MaskHolds
  BY DEF IInv
<1> QED BY <1>1, Invariance, PTL

\* Dispatch ends every claim it makes before it returns.
THEOREM ClaimsAreEnded == Spec => []EveryClaimEnded
<1>1. IInv => EveryClaimEnded
  BY DEF IInv, InService, EveryClaimEnded
<1> QED BY <1>1, Invariance, PTL
=============================================================================
