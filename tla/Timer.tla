------------------------------- MODULE Timer -------------------------------
(***************************************************************************)
(* The one-shot deadline timer behind hal_core::timer::TimerAbstraction:   *)
(* the TSC-deadline timer of hal-x86_64, the Generic Timer of hal-arm64    *)
(* and the SBI timer of hal-riscv64, on one core.                          *)
(*                                                                         *)
(* Two contexts run the HAL on that core: the kernel ("thread") and the    *)
(* timer interrupt with the registered callback ("isr").  The counter runs *)
(* while they do, and an unmasked interrupt arrives between any two steps  *)
(* of the thread, so set_oneshot is two steps: it reads the clock and      *)
(* decides, then it writes the comparator.  A call that the code refuses   *)
(* with Err changes nothing and is a stuttering step.                      *)
(***************************************************************************)
EXTENDS Integers

CONSTANTS
  Archs,       \* the architectures of this instance
  Freqs,       \* counter frequencies, ticks per NsPerSec nanoseconds
  NsPerSec,    \* 1_000_000_000 in the code
  TickMax,     \* u64::MAX: the largest counter and comparator value
  Deadlines,   \* the deadline_ns arguments the kernel passes
  Horizon,     \* bound: the counter stops here
  NoDeadline   \* Option::None

ASSUME TimerAssumption ==
  /\ Archs \subseteq {"x86_64", "arm64", "riscv64"}
  /\ Freqs \subseteq Nat \ {0}
  /\ NsPerSec \in Nat \ {0}
  /\ TickMax \in Nat
  /\ Deadlines \subseteq Nat
  /\ Horizon \in Nat \ {0} /\ Horizon < TickMax
  /\ NoDeadline \notin Nat

VARIABLES
  arch,           \* which hal-<arch> crate is linked
  frequency_hz,   \* Timer::frequency_hz
  capable,        \* x86_64: tsc_deadline_capable, riscv64: sbi_time_available
  counter,        \* TSC, CNTPCT_EL0, time CSR
  compare,        \* IA32_TSC_DEADLINE, CNTP_CVAL_EL0, mtimecmp behind the SBI
  latched,        \* x86_64: the timer vector in the local APIC's request register
  callback,       \* Timer::callback is Some
  tickless,       \* Timer::tickless_enabled
  masked,         \* the kernel runs with interrupts masked
  published,      \* which of GLOBAL_CONTROLLER_PTR and GLOBAL_TIMER_PTR are set
  unended,        \* x86_64: the timer vector stays in service, for want of an EOI
  ctx,            \* the context that runs now
  call,           \* per context: a set_oneshot between its check and its write
  wedged,         \* the core loops on a fault
  armed,          \* history: the accepted deadline no later call replaced
  fired,          \* history: callbacks run for armed (2 stands for more)
  dropped         \* history: armed's interrupt was taken and ran no callback

fixed == <<arch, frequency_hz, capable>>
dispatch == <<published, unended>>
history == <<armed, fired, dropped>>
vars == <<fixed, counter, compare, latched, callback, tickless, masked, dispatch,
          ctx, call, wedged, history>>

Contexts == {"thread", "isr"}
TimerMode == {"Interactive", "HighResolutionTickless"}
Globals == {"controller", "timer"}

(***************************************************************************)
(* Conversions: u128 products, floored, and truncated back to u64.         *)
(***************************************************************************)
now_ns == (counter * NsPerSec) \div frequency_hz

\* Slips: the division forgotten, and done before the product.
ticks_undivided(d) == d * frequency_hz
ticks_divided_first(d) == (d \div NsPerSec) * frequency_hz

deadline_ns_to_ticks(d) == ((d * frequency_hz) \div NsPerSec) % (TickMax + 1)

\* The comparator value that stands for "no deadline".
Disarmed == IF arch = "x86_64" THEN 0 ELSE TickMax

\* The timer interrupt line.  The local APIC latches an edge; the Generic
\* Timer and the SBI timer assert it as long as the counter is at or past the
\* comparator.
Asserted == IF arch = "x86_64" THEN latched # "clear" ELSE counter >= compare

----------------------------------------------------------------------------
(***************************************************************************)
(* Construction.                                                           *)
(***************************************************************************)
new_x86_64 == /\ arch = "x86_64"
              /\ capable \in BOOLEAN          \* invariant TSC and deadline mode
              /\ compare = 0

new_arm64 == /\ arch = "arm64"
             /\ capable = TRUE
             /\ compare = TickMax

new_riscv64 == /\ arch = "riscv64"
               /\ capable \in BOOLEAN         \* SBI TIME extension probed
               /\ compare = TickMax           \* what the firmware leaves there

Init ==
  /\ arch \in Archs
  /\ frequency_hz \in Freqs
  /\ new_x86_64 \/ new_arm64 \/ new_riscv64
  /\ counter = 1              \* the counter has been running since reset
  /\ latched = "clear"
  /\ callback = FALSE
  /\ tickless = FALSE
  /\ masked = TRUE
  /\ published = {} /\ unended = FALSE
  /\ ctx = "thread"
  /\ call = [c \in Contexts |-> NoDeadline]
  /\ wedged = FALSE
  /\ armed = NoDeadline
  /\ fired = 0
  /\ dropped = FALSE

----------------------------------------------------------------------------
\* Context c makes its next call; in the interrupt that is the callback.
Calling(c) ==
  /\ ~wedged /\ ctx = c /\ call[c] = NoDeadline
  /\ c = "isr" => callback

(***************************************************************************)
(* set_oneshot: first the checks, against the clock as it is now ...       *)
(***************************************************************************)

Check(c, d) ==
  /\ Calling(c)
  /\ d > now_ns
  /\ call' = [call EXCEPT ![c] = d]
  /\ UNCHANGED <<fixed, counter, compare, latched, callback, tickless, masked,
                 dispatch, ctx, wedged, history>>

set_oneshot_x86_64(c, d, mode) ==
  /\ arch = "x86_64"
  /\ ~(mode = "HighResolutionTickless" /\ ~capable)
  /\ capable
  /\ Check(c, d)

set_oneshot_arm64(c, d) == arch = "arm64" /\ Check(c, d)

set_oneshot_riscv64(c, d) == arch = "riscv64" /\ capable /\ Check(c, d)

set_oneshot(c) ==
  \E d \in Deadlines :
    \/ \E mode \in TimerMode : set_oneshot_x86_64(c, d, mode)
    \/ set_oneshot_arm64(c, d)
    \/ set_oneshot_riscv64(c, d)

\* An interrupt the APIC has latched stays latched when the comparator is
\* rewritten: it now belongs to no armed deadline.
Outdated == IF latched = "clear" THEN "clear" ELSE "stale"

\* Slip: a comparator that is in use is not written.
write_deadline_once(c) ==
  /\ ~wedged /\ ctx = c /\ call[c] # NoDeadline
  /\ compare' = IF armed = NoDeadline THEN deadline_ns_to_ticks(call[c]) ELSE compare
  /\ latched' = Outdated
  /\ armed' = call[c]
  /\ fired' = 0 /\ dropped' = FALSE
  /\ call' = [call EXCEPT ![c] = NoDeadline]
  /\ UNCHANGED <<fixed, counter, callback, tickless, masked, dispatch, ctx,
                 wedged>>

\* ... then the write of the comparator, and Ok.
write_deadline(c) ==
  /\ ~wedged /\ ctx = c /\ call[c] # NoDeadline
  /\ compare' = deadline_ns_to_ticks(call[c])
  /\ latched' = Outdated
  /\ armed' = call[c]
  /\ fired' = 0 /\ dropped' = FALSE
  /\ call' = [call EXCEPT ![c] = NoDeadline]
  /\ UNCHANGED <<fixed, counter, callback, tickless, masked, dispatch, ctx,
                 wedged>>

(***************************************************************************)
(* cancel_oneshot.  The MSR exists only where the CPU has deadline mode.   *)
(***************************************************************************)
cancel_oneshot_x86_64 ==
  /\ arch = "x86_64"
  /\ IF capable THEN compare' = 0 /\ UNCHANGED wedged
                ELSE wedged' = TRUE /\ UNCHANGED compare

\* Slip: zero, which disarms the MSR of x86_64, is a deadline long past here.
cancel_with_zero ==
  /\ arch = "arm64"
  /\ compare' = 0 /\ UNCHANGED wedged

cancel_oneshot_arm64 ==
  /\ arch = "arm64"
  /\ compare' = TickMax /\ UNCHANGED wedged

cancel_oneshot_riscv64 ==
  /\ arch = "riscv64"
  /\ compare' = IF capable THEN TickMax ELSE compare
  /\ UNCHANGED wedged

cancel_oneshot(c) ==
  /\ Calling(c)
  /\ cancel_oneshot_x86_64 \/ cancel_oneshot_arm64 \/ cancel_oneshot_riscv64
  /\ latched' = Outdated
  /\ armed' = NoDeadline
  /\ fired' = 0 /\ dropped' = FALSE
  /\ UNCHANGED <<fixed, counter, callback, tickless, masked, dispatch, ctx,
                 call>>

(***************************************************************************)
(* The remaining operations of the trait, and the pointers the kernel      *)
(* publishes for dispatch: nothing in the HAL calls these two, and nothing *)
(* keeps the kernel from unmasking first.                                  *)
(***************************************************************************)
Publish(global) ==
  /\ Calling("thread") /\ global \notin published
  /\ published' = published \cup {global}
  /\ UNCHANGED <<fixed, counter, compare, latched, callback, tickless, masked,
                 unended, ctx, call, wedged, history>>

set_global_controller == Publish("controller")
set_global_timer == Publish("timer")

set_tickless(c, enabled) ==
  /\ Calling(c)
  /\ enabled => capable
  /\ tickless' = enabled
  /\ UNCHANGED <<fixed, counter, compare, latched, callback, masked, dispatch,
                 ctx, call, wedged, history>>

set_timer_callback(c) ==
  /\ Calling(c)
  /\ callback' = TRUE
  /\ UNCHANGED <<fixed, counter, compare, latched, tickless, masked, dispatch,
                 ctx, call, wedged, history>>

----------------------------------------------------------------------------
(***************************************************************************)
(* The hardware, and the kernel's interrupt mask.                          *)
(***************************************************************************)
Tick ==
  /\ counter < Horizon
  /\ counter' = counter + 1
  /\ UNCHANGED <<fixed, compare, latched, callback, tickless, masked,
                 dispatch, ctx, call, wedged, history>>

\* The TSC reaches IA32_TSC_DEADLINE: the APIC latches the vector and the MSR
\* returns to zero.
Expire ==
  /\ arch = "x86_64" /\ compare # 0 /\ counter >= compare
  /\ compare' = 0
  /\ latched' = "current"
  /\ UNCHANGED <<fixed, counter, callback, tickless, masked, dispatch, ctx,
                 call, wedged, history>>

ToggleMask ==
  /\ ~wedged /\ ctx = "thread" /\ call["thread"] = NoDeadline
  /\ masked' = ~masked
  /\ UNCHANGED <<fixed, counter, compare, latched, callback, tickless,
                 dispatch, ctx, call, wedged, history>>

(***************************************************************************)
(* The interrupt is taken: the architecture's dispatch routine calls       *)
(* on_timer_interrupt, which runs the callback if there is one.  The       *)
(* callback is kernel code: the "isr" context may call the timer before    *)
(* dispatch returns, with an end-of-interrupt where there is one.          *)
(***************************************************************************)
on_timer_interrupt ==
  IF latched = "stale" THEN UNCHANGED <<fired, dropped>>
  ELSE IF callback THEN /\ fired' = IF fired < 2 THEN fired + 1 ELSE fired
                        /\ UNCHANGED dropped
       ELSE dropped' = TRUE /\ UNCHANGED fired

\* The core takes the interrupt: the handler starts with interrupts off.
Delivered ==
  /\ ~wedged /\ ctx = "thread" /\ ~masked /\ Asserted /\ ~unended
  /\ latched' = "clear"

\* dispatch_vector and dispatch_current_irq look for the controller first;
\* dispatch_current_interrupt does not.
HasController == arch = "riscv64" \/ "controller" \in published

Take ==
  /\ Delivered
  /\ HasController /\ "timer" \in published
  /\ ctx' = "isr"
  /\ on_timer_interrupt
  /\ UNCHANGED <<fixed, counter, compare, callback, tickless, masked, dispatch,
                 call, wedged, armed>>

\* No controller is published: dispatch returns at once.  On x86_64 nobody ends
\* the interrupt; at a GIC nothing was acknowledged and it is taken again, a
\* stuttering step.
dispatch_unpublished ==
  /\ Delivered
  /\ arch = "x86_64" /\ ~HasController
  /\ unended' = TRUE
  /\ dropped' = (dropped \/ latched # "stale")
  /\ UNCHANGED <<fixed, counter, compare, callback, tickless, masked, published,
                 ctx, call, wedged, armed, fired>>

\* global_timer_ref reads through a null pointer: a fault, or what happens to be
\* there passes for a timer without a callback.
dispatch_null_timer ==
  /\ Delivered
  /\ HasController /\ "timer" \notin published
  /\ wedged' \in BOOLEAN
  /\ dropped' = (dropped \/ latched # "stale")
  /\ UNCHANGED <<fixed, counter, compare, callback, tickless, masked, dispatch,
                 ctx, call, armed, fired>>

Return ==
  /\ ~wedged /\ ctx = "isr" /\ call["isr"] = NoDeadline
  /\ ctx' = "thread"
  /\ UNCHANGED <<fixed, counter, compare, latched, callback, tickless, masked,
                 dispatch, call, wedged, history>>

\* The faulting instruction is retried for ever.
Wedged == wedged /\ UNCHANGED vars

Next ==
  \/ \E c \in Contexts :
       \/ set_oneshot(c)
       \/ write_deadline(c)
       \/ cancel_oneshot(c)
       \/ \E enabled \in BOOLEAN : set_tickless(c, enabled)
       \/ set_timer_callback(c)
  \/ set_global_controller \/ set_global_timer
  \/ Tick \/ Expire \/ ToggleMask
  \/ Take \/ dispatch_unpublished \/ dispatch_null_timer \/ Return \/ Wedged

\* The counter runs, the APIC expires a deadline, a context finishes the call
\* it is in, the callback returns, and the core takes an interrupt that is
\* asserted whenever the kernel unmasks.
Fairness ==
  /\ WF_vars(Tick) /\ WF_vars(Expire) /\ WF_vars(Return) /\ SF_vars(Take)
  /\ \A c \in Contexts : WF_vars(write_deadline(c))

Spec == Init /\ [][Next]_vars /\ Fairness

----------------------------------------------------------------------------
(***************************************************************************)
(* Properties.                                                             *)
(***************************************************************************)

\* Types: every register, cell and history variable keeps its range.
TypeOK ==
  /\ arch \in Archs
  /\ frequency_hz \in Freqs
  /\ capable \in BOOLEAN
  /\ counter \in 1..Horizon
  /\ compare \in 0..TickMax
  /\ latched \in {"clear", "current", "stale"}
  /\ callback \in BOOLEAN
  /\ tickless \in BOOLEAN
  /\ masked \in BOOLEAN
  /\ published \subseteq Globals /\ unended \in BOOLEAN
  /\ ctx \in Contexts
  /\ call \in [Contexts -> Deadlines \cup {NoDeadline}]
  /\ wedged \in BOOLEAN
  /\ armed \in Deadlines \cup {NoDeadline}
  /\ fired \in 0..2
  /\ dropped \in BOOLEAN

\* No deadline the kernel passes needs more ticks than the counter has.
NoTruncation ==
  \A d \in Deadlines, f \in Freqs : (d * f) \div NsPerSec < TickMax

\* No deadline is lost between set_oneshot's Ok and its callback: the
\* comparator holds the armed deadline (never the value that disarms it), or,
\* on x86_64, the APIC has latched its expiry or dispatch has taken it.  And
\* with no armed deadline the comparator is disarmed.
ArmedIsProgrammed ==
  \/ /\ armed = NoDeadline
     /\ compare = Disarmed
     /\ latched # "current"
  \/ /\ armed # NoDeadline
     /\ compare = deadline_ns_to_ticks(armed)
     /\ compare # Disarmed
     /\ arch = "x86_64" => fired = 0 /\ latched # "current"
  \/ /\ armed # NoDeadline
     /\ arch = "x86_64" /\ compare = 0
     /\ \/ latched = "current" /\ fired = 0
        \/ latched = "clear" /\ (fired = 1 \/ dropped)

\* The interrupt of an armed deadline is asserted no earlier than one tick
\* before it: converting to ticks by flooring loses less than a tick.
AssertedOnlyWhenDue ==
  Asserted /\ latched # "stale" =>
    /\ armed # NoDeadline
    /\ armed * frequency_hz < (counter + 1) * NsPerSec

\* A deadline that is neither replaced nor cancelled runs the callback, if the
\* kernel keeps the trait's rule that the callback is registered first, has
\* published the controller and the timer by then, and does not keep interrupts
\* masked for ever.
EveryDeadlineFires ==
  [](armed # NoDeadline => callback /\ published = Globals) /\ []<>~masked =>
    \A d \in Deadlines : armed = d ~> (fired > 0 \/ armed # d \/ wedged)

----------------------------------------------------------------------------
(***************************************************************************)
(* What the trait's documentation says and the code does not do.           *)
(***************************************************************************)

\* hal-core/src/timer.rs:102: an armed deadline "will fire once"; stated of the
\* callback that on_timer_interrupt runs for it.
FiresOnce == fired <= 1
=============================================================================
