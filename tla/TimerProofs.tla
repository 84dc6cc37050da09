---------------------------- MODULE TimerProofs ----------------------------
(***************************************************************************)
(* Proofs of the safety properties of Timer, for every set of deadlines    *)
(* and frequencies, every resolution and every counter width.  The         *)
(* theorems about deadlines assume NoTruncation: the code does not refuse  *)
(* a deadline beyond the counter's range (see OverflowRejected).           *)
(***************************************************************************)
EXTENDS Timer, TLAPS

(***************************************************************************)
(* Arithmetic of the two conversions.                                      *)
(***************************************************************************)

\* Flooring division by the resolution, as now_ns and deadline_ns_to_ticks do
\* it, loses less than one unit.
LEMMA DivFloor ==
  ASSUME NEW a \in Nat, NEW n \in Nat \ {0}
  PROVE  /\ a \div n \in Nat
         /\ (a \div n) * n <= a
         /\ a < ((a \div n) + 1) * n
BY SMT

\* The u64 truncation at the end of deadline_ns_to_ticks keeps a value in range,
\* and leaves one that is in range alone.
LEMMA Truncation ==
  ASSUME NEW a \in Nat, NEW m \in Nat
  PROVE  /\ a % (m + 1) \in 0..m
         /\ a < m => a % (m + 1) = a
BY SMT

\* A product of naturals is one, and multiplying keeps the order: the u128
\* products of the conversions.
LEMMA Products ==
  ASSUME NEW a \in Nat, NEW b \in Nat, NEW n \in Nat
  PROVE  /\ a * n \in Nat
         /\ a <= b => a * n <= b * n
         /\ a * n < b * n => a < b
BY SMT

\* A deadline that is later than the clock is no fewer ticks than the counter:
\* the check of set_oneshot, made in nanoseconds, carries over to ticks.
LEMMA LaterIsNotEarlierInTicks ==
  ASSUME NEW d \in Nat, NEW t \in Nat, NEW f \in Nat \ {0}, NEW n \in Nat \ {0},
         d > (t * n) \div f
  PROVE  t <= (d * f) \div n
<1> DEFINE q == (t * n) \div f
           k == (d * f) \div n
<1>1. t * n \in Nat /\ d * f \in Nat
  BY Products
<1>2. q \in Nat /\ t * n < (q + 1) * f
  BY <1>1, DivFloor
<1>3. (q + 1) * f <= d * f
  <2>1. q + 1 \in Nat /\ q + 1 <= d
    BY <1>2
  <2> HIDE DEF q
  <2> QED BY <2>1, Products
<1>4. k \in Nat /\ d * f < (k + 1) * n
  BY <1>1, DivFloor
<1>5. t * n < (k + 1) * n
  <2>1. (q + 1) * f \in Nat /\ (k + 1) * n \in Nat
    BY <1>2, <1>4, Products
  <2> HIDE DEF q, k
  <2> QED BY <1>1, <1>2, <1>3, <1>4, <2>1
<1>6. t < k + 1
  <2>1. k + 1 \in Nat
    BY <1>4
  <2> HIDE DEF q, k
  <2> QED BY <1>5, <2>1, Products
<1> QED BY <1>4, <1>6

\* The clock and the tick value of a deadline are in range, and without
\* truncation the tick value is the floor.
LEMMA Conversions ==
  ASSUME TypeOK, NEW d \in Deadlines
  PROVE  /\ d \in Nat /\ frequency_hz \in Nat \ {0} /\ d * frequency_hz \in Nat
         /\ (d * frequency_hz) \div NsPerSec \in Nat
         /\ deadline_ns_to_ticks(d) \in 0..TickMax
         /\ NoTruncation =>
              /\ deadline_ns_to_ticks(d) = (d * frequency_hz) \div NsPerSec
              /\ deadline_ns_to_ticks(d) < TickMax
<1>1. d \in Nat /\ frequency_hz \in Nat \ {0} /\ frequency_hz \in Freqs
  BY TimerAssumption DEF TypeOK
<1>2. d * frequency_hz \in Nat
  BY <1>1, Products
<1>3. (d * frequency_hz) \div NsPerSec \in Nat
  BY <1>2, DivFloor, TimerAssumption
<1>4. deadline_ns_to_ticks(d) \in 0..TickMax
  BY <1>3, Truncation, TimerAssumption DEF deadline_ns_to_ticks
<1>5. ASSUME NoTruncation
      PROVE  /\ deadline_ns_to_ticks(d) = (d * frequency_hz) \div NsPerSec
             /\ deadline_ns_to_ticks(d) < TickMax
  <2>1. (d * frequency_hz) \div NsPerSec < TickMax
    BY <1>1, <1>5 DEF NoTruncation
  <2> QED BY <1>3, <2>1, Truncation, TimerAssumption DEF deadline_ns_to_ticks
<1> QED BY <1>1, <1>2, <1>3, <1>4, <1>5

(***************************************************************************)
(* Type correctness.                                                       *)
(***************************************************************************)

\* The initial state is well typed.
LEMMA InitTypeOK == Init => TypeOK
<1> SUFFICES ASSUME Init PROVE TypeOK
  OBVIOUS
<1>1. compare \in 0..TickMax /\ counter \in 1..Horizon /\ fired \in 0..2
  BY TimerAssumption DEF Init, new_x86_64, new_arm64, new_riscv64
<1>2. capable \in BOOLEAN
  BY DEF Init, new_x86_64, new_arm64, new_riscv64
<1> QED BY <1>1, <1>2 DEF Init, TypeOK, Contexts

\* Every step of the HAL, of the hardware and of the kernel keeps the types.
LEMMA NextTypeOK == TypeOK /\ [Next]_vars => TypeOK'
<1> SUFFICES ASSUME TypeOK, [Next]_vars PROVE TypeOK'
  OBVIOUS
<1> USE DEF TypeOK
<1>1. ASSUME NEW c \in Contexts, NEW d \in Deadlines, Check(c, d) PROVE TypeOK'
  BY <1>1 DEF Check, fixed, dispatch, history, Calling
<1>2. ASSUME NEW c \in Contexts, set_oneshot(c) PROVE TypeOK'
  BY <1>1, <1>2 DEF set_oneshot, set_oneshot_x86_64, set_oneshot_arm64, set_oneshot_riscv64
<1>3. ASSUME NEW c \in Contexts, write_deadline(c) PROVE TypeOK'
  <2>1. call[c] \in Deadlines
    BY <1>3 DEF write_deadline
  <2>2. deadline_ns_to_ticks(call[c]) \in 0..TickMax
    BY <2>1, Conversions
  <2>3. call' \in [Contexts -> Deadlines \cup {NoDeadline}]
    BY <1>3 DEF write_deadline
  <2>4. latched' \in {"clear", "current", "stale"} /\ fired' \in 0..2
    BY <1>3 DEF write_deadline, Outdated
  <2> QED BY <1>3, <2>1, <2>2, <2>3, <2>4 DEF write_deadline, fixed, dispatch
<1>4. ASSUME NEW c \in Contexts, cancel_oneshot(c) PROVE TypeOK'
  <2> USE DEF cancel_oneshot, cancel_oneshot_x86_64, cancel_oneshot_arm64,
              cancel_oneshot_riscv64
  <2>1. compare' \in 0..TickMax
    BY <1>4, TimerAssumption
  <2>2. wedged' \in BOOLEAN
    BY <1>4
  <2>3. latched' \in {"clear", "current", "stale"} /\ fired' \in 0..2
    BY <1>4 DEF Outdated
  <2> QED BY <1>4, <2>1, <2>2, <2>3 DEF fixed, dispatch
<1>5. ASSUME NEW c \in Contexts, NEW e \in BOOLEAN, set_tickless(c, e) PROVE TypeOK'
  BY <1>5 DEF set_tickless, fixed, dispatch, history
<1>6. ASSUME NEW c \in Contexts, set_timer_callback(c) PROVE TypeOK'
  BY <1>6 DEF set_timer_callback, fixed, dispatch, history
<1>7. CASE Tick
  BY <1>7, TimerAssumption DEF Tick, fixed, dispatch, history
<1>8. CASE Expire
  BY <1>8, TimerAssumption DEF Expire, fixed, dispatch, history
<1>9. CASE ToggleMask
  BY <1>9 DEF ToggleMask, fixed, dispatch, history
<1>10. CASE Take
  <2>1. fired' \in 0..2
    BY <1>10 DEF Take, on_timer_interrupt
  <2>2. dropped' \in BOOLEAN
    BY <1>10 DEF Take, on_timer_interrupt
  <2> QED BY <1>10, <2>1, <2>2 DEF Take, Delivered, fixed, dispatch, Contexts
<1>11. CASE Return
  BY <1>11 DEF Return, fixed, dispatch, history, Contexts
<1>12. CASE Wedged \/ UNCHANGED vars
  BY <1>12 DEF Wedged, vars, fixed, dispatch, history
<1>13. CASE set_global_controller \/ set_global_timer
  BY <1>13 DEF set_global_controller, set_global_timer, Publish, Globals, fixed, history
<1>14. CASE dispatch_unpublished
  BY <1>14 DEF dispatch_unpublished, Delivered, fixed
<1>15. CASE dispatch_null_timer
  BY <1>15 DEF dispatch_null_timer, Delivered, fixed, dispatch
<1> QED
  BY <1>2, <1>3, <1>4, <1>5, <1>6, <1>7, <1>8, <1>9, <1>10, <1>11, <1>12, <1>13,
     <1>14, <1>15 DEF Next

\* Every register, cell and history variable keeps its range in every
\* behaviour: in particular the comparator never holds more than a u64.
THEOREM TypeCorrect == Spec => []TypeOK
BY InitTypeOK, NextTypeOK, PTL DEF Spec

(***************************************************************************)
(* The inductive invariant.  ArmedIsProgrammed alone is not inductive: a   *)
(* set_oneshot between its check and its write must be known to write a    *)
(* comparator value that does not disarm, cancel_oneshot must know that    *)
(* nothing is armed where the timer is not capable, and an interrupt the   *)
(* APIC has latched must still be due when the callback runs.              *)
(***************************************************************************)
CallsInRange == \A c \in Contexts : call[c] # NoDeadline =>
                  /\ deadline_ns_to_ticks(call[c]) \in 1..(TickMax - 1)
                  /\ capable

ArmedIsCapable == (armed # NoDeadline \/ arch = "arm64") => capable

LatchedIsDue == latched = "current" => deadline_ns_to_ticks(armed) <= counter

IInv == /\ TypeOK
        /\ CallsInRange
        /\ ArmedIsCapable
        /\ ArmedIsProgrammed
        /\ LatchedIsDue

\* The freshly constructed timer satisfies the invariant.
LEMMA InitIInv == Init => IInv
<1> SUFFICES ASSUME Init PROVE IInv
  OBVIOUS
<1>1. TypeOK
  BY InitTypeOK
<1>2. CallsInRange
  BY DEF Init, CallsInRange
<1>3. ArmedIsCapable
  BY DEF Init, ArmedIsCapable, new_x86_64, new_arm64, new_riscv64
<1>4. ArmedIsProgrammed
  BY DEF Init, ArmedIsProgrammed, Disarmed, new_x86_64, new_arm64, new_riscv64
<1>5. LatchedIsDue
  BY DEF Init, LatchedIsDue
<1> QED BY <1>1, <1>2, <1>3, <1>4, <1>5 DEF IInv

\* What the check of set_oneshot leaves for its write: a tick value that is not
\* zero, because the counter has started, and below the largest.
LEMMA CheckedDeadline ==
  ASSUME NoTruncation, TypeOK, NEW d \in Deadlines, d > now_ns
  PROVE  deadline_ns_to_ticks(d) \in 1..(TickMax - 1)
<1>1. /\ d \in Nat /\ frequency_hz \in Nat \ {0} /\ NsPerSec \in Nat \ {0}
      /\ TickMax \in Nat /\ counter \in Nat /\ counter >= 1
  BY Conversions, TimerAssumption DEF TypeOK
<1>2. counter <= (d * frequency_hz) \div NsPerSec
  BY <1>1, LaterIsNotEarlierInTicks DEF now_ns
<1>3. /\ deadline_ns_to_ticks(d) = (d * frequency_hz) \div NsPerSec
      /\ deadline_ns_to_ticks(d) < TickMax
      /\ deadline_ns_to_ticks(d) \in 0..TickMax
  BY Conversions
<1> QED BY <1>1, <1>2, <1>3

\* Steps that change neither the timer's state nor a pending call keep the
\* invariant's parts, the counter may advance under them.
LEMMA QuietStep ==
  ASSUME IInv, TypeOK',
         UNCHANGED <<fixed, compare, latched, armed, fired, dropped, call>>,
         counter <= counter'
  PROVE  IInv'
<1>2. CallsInRange' /\ ArmedIsCapable'
  BY DEF IInv, CallsInRange, ArmedIsCapable, fixed, deadline_ns_to_ticks
<1>3. ArmedIsProgrammed'
  BY DEF IInv, ArmedIsProgrammed, Disarmed, fixed, deadline_ns_to_ticks
<1>4. LatchedIsDue'
  <2> SUFFICES ASSUME latched = "current" PROVE deadline_ns_to_ticks(armed)' <= counter'
    BY DEF LatchedIsDue
  <2>1. armed \in Deadlines
    BY DEF IInv, ArmedIsProgrammed, TypeOK
  <2>2. deadline_ns_to_ticks(armed) \in 0..TickMax
    BY <2>1, Conversions DEF IInv
  <2>3. deadline_ns_to_ticks(armed)' = deadline_ns_to_ticks(armed)
    BY DEF deadline_ns_to_ticks, fixed
  <2> QED BY <2>2, <2>3, TimerAssumption DEF IInv, LatchedIsDue, TypeOK
<1> QED BY <1>2, <1>3, <1>4 DEF IInv

\* set_oneshot's check records a deadline whose write will be in range.
LEMMA CheckIInv ==
  ASSUME NoTruncation, IInv, TypeOK', NEW c \in Contexts, NEW d \in Deadlines,
         Check(c, d), arch # "arm64" => capable
  PROVE  IInv'
<1> USE DEF IInv
<1>1. deadline_ns_to_ticks(d) \in 1..(TickMax - 1)
  BY CheckedDeadline DEF Check
<1>2. capable
  BY DEF ArmedIsCapable
<1>3. CallsInRange'
  <2> SUFFICES ASSUME NEW b \in Contexts, call'[b] # NoDeadline
               PROVE  /\ deadline_ns_to_ticks(call[b])' \in 1..(TickMax - 1)
                      /\ capable'
    BY DEF CallsInRange
  <2>1. call'[b] = IF b = c THEN d ELSE call[b]
    BY DEF Check, TypeOK
  <2> QED BY <1>1, <1>2, <2>1 DEF Check, CallsInRange, deadline_ns_to_ticks, fixed
<1>4. ArmedIsCapable' /\ LatchedIsDue'
  BY DEF Check, ArmedIsCapable, LatchedIsDue, deadline_ns_to_ticks,
         fixed, history
<1>5. ArmedIsProgrammed'
  BY DEF Check, ArmedIsProgrammed, Disarmed, deadline_ns_to_ticks, fixed, history
<1> QED BY <1>3, <1>4, <1>5

\* The write of the comparator arms the deadline the check recorded.
LEMMA WriteIInv ==
  ASSUME IInv, TypeOK', NEW c \in Contexts, write_deadline(c)
  PROVE  IInv'
<1> USE DEF IInv
<1>1. /\ deadline_ns_to_ticks(call[c]) \in 1..(TickMax - 1)
      /\ capable
  BY DEF CallsInRange, write_deadline
<1>2. CallsInRange'
  <2> SUFFICES ASSUME NEW b \in Contexts, call'[b] # NoDeadline
               PROVE  /\ deadline_ns_to_ticks(call[b])' \in 1..(TickMax - 1)
                      /\ capable'
    BY DEF CallsInRange
  <2>1. b # c /\ call'[b] = call[b]
    BY DEF write_deadline, TypeOK
  <2> QED BY <2>1 DEF write_deadline, CallsInRange, deadline_ns_to_ticks, fixed
<1>3. ArmedIsCapable'
  BY <1>1 DEF ArmedIsCapable, write_deadline, fixed
<1>4. latched' # "current"
  BY DEF write_deadline, Outdated
<1>5. ArmedIsProgrammed'
  <2>1. armed' # NoDeadline /\ compare' = deadline_ns_to_ticks(armed)' /\ fired' = 0
    BY DEF write_deadline, deadline_ns_to_ticks, fixed
  <2>2. compare' # Disarmed'
    BY <1>1, TimerAssumption DEF write_deadline, Disarmed, fixed
  <2> QED BY <1>4, <2>1, <2>2 DEF ArmedIsProgrammed
<1>6. LatchedIsDue'
  BY <1>4 DEF write_deadline, LatchedIsDue
<1> QED BY <1>2, <1>3, <1>5, <1>6

\* cancel_oneshot disarms the comparator: where it cannot, nothing was armed.
LEMMA CancelIInv ==
  ASSUME IInv, TypeOK', NEW c \in Contexts, cancel_oneshot(c)
  PROVE  IInv'
<1> USE DEF IInv, cancel_oneshot
<1>1. CallsInRange' /\ ArmedIsCapable'
  BY DEF CallsInRange, ArmedIsCapable, deadline_ns_to_ticks, fixed
<1>2. latched' # "current"
  BY DEF Outdated
<1>3. compare' = Disarmed
  <2>1. CASE capable
    BY <2>1 DEF cancel_oneshot_x86_64, cancel_oneshot_arm64, cancel_oneshot_riscv64, Disarmed
  <2>2. CASE ~capable
    <3>1. armed = NoDeadline /\ compare = Disarmed
      BY <2>2 DEF ArmedIsCapable, ArmedIsProgrammed
    <3>2. compare' = compare
      BY <2>2 DEF ArmedIsCapable, cancel_oneshot_x86_64, cancel_oneshot_arm64,
                  cancel_oneshot_riscv64
    <3> QED BY <3>1, <3>2
  <2> QED BY <2>1, <2>2
<1>4. ArmedIsProgrammed'
  BY <1>2, <1>3 DEF ArmedIsProgrammed, Disarmed, fixed
<1>5. LatchedIsDue'
  BY <1>2 DEF LatchedIsDue
<1> QED BY <1>1, <1>4, <1>5

\* The APIC latches a deadline that is due, and the MSR disarms itself.
LEMMA ExpireIInv == ASSUME IInv, TypeOK', Expire PROVE IInv'
<1> USE DEF IInv, Expire
<1>1. CallsInRange' /\ ArmedIsCapable'
  BY DEF CallsInRange, ArmedIsCapable, deadline_ns_to_ticks, fixed, history
<1>2. armed # NoDeadline /\ compare = deadline_ns_to_ticks(armed) /\ fired = 0
  BY DEF ArmedIsProgrammed, Disarmed
<1>3. ArmedIsProgrammed'
  BY <1>2 DEF ArmedIsProgrammed, fixed, history
<1>4. LatchedIsDue'
  BY <1>2, TimerAssumption DEF LatchedIsDue, TypeOK, deadline_ns_to_ticks, fixed, history
<1> QED BY <1>1, <1>3, <1>4

\* Dispatch takes the interrupt: on x86_64 the first time for its deadline.
LEMMA TakeIInv == ASSUME IInv, TypeOK', Take PROVE IInv'
<1> USE DEF IInv, Take, Delivered
<1>1. CallsInRange' /\ ArmedIsCapable' /\ LatchedIsDue'
  BY DEF CallsInRange, ArmedIsCapable, LatchedIsDue, deadline_ns_to_ticks, fixed
<1>2. CASE latched = "stale"
  <2>1. UNCHANGED <<fired, dropped>>
    BY <1>2 DEF on_timer_interrupt
  <2>2. ArmedIsProgrammed'
    BY <1>2, <2>1 DEF ArmedIsProgrammed, Disarmed, deadline_ns_to_ticks, fixed
  <2> QED BY <1>1, <2>2
<1>3. CASE latched # "stale" /\ arch = "x86_64"
  <2>1. /\ latched = "current" /\ fired = 0 /\ armed # NoDeadline /\ compare = 0
    BY <1>3 DEF Asserted, ArmedIsProgrammed, TypeOK
  <2>2. fired' = 1 \/ (fired' = 0 /\ dropped')
    BY <1>3, <2>1 DEF on_timer_interrupt
  <2> QED BY <1>1, <1>3, <2>1, <2>2 DEF ArmedIsProgrammed, fixed
<1>4. CASE arch # "x86_64"
  <2>1. ArmedIsProgrammed'
    BY <1>4 DEF ArmedIsProgrammed, Disarmed, deadline_ns_to_ticks, fixed
  <2> QED BY <1>1, <2>1
<1> QED BY <1>2, <1>3, <1>4

\* Dispatch takes the interrupt and finds no controller or no timer.
LEMMA LostIInv ==
  ASSUME IInv, TypeOK', dispatch_unpublished \/ dispatch_null_timer PROVE IInv'
<1> USE DEF IInv, Delivered
<1>1. /\ Asserted /\ latched' = "clear" /\ dropped' = (dropped \/ latched # "stale")
      /\ UNCHANGED <<fixed, counter, compare, call, armed, fired>>
  BY DEF dispatch_unpublished, dispatch_null_timer
<1>2. CallsInRange' /\ ArmedIsCapable' /\ LatchedIsDue'
  BY <1>1 DEF CallsInRange, ArmedIsCapable, LatchedIsDue, deadline_ns_to_ticks, fixed
<1>3. CASE latched = "stale"
  <2>1. dropped' = dropped
    BY <1>1, <1>3 DEF TypeOK
  <2>2. ArmedIsProgrammed'
    BY <1>1, <1>3, <2>1 DEF ArmedIsProgrammed, Disarmed, deadline_ns_to_ticks, fixed
  <2> QED BY <1>2, <2>2
<1>4. CASE latched # "stale" /\ arch = "x86_64"
  <2>1. /\ latched = "current" /\ fired = 0 /\ armed # NoDeadline /\ compare = 0
    BY <1>1, <1>4 DEF Asserted, ArmedIsProgrammed, TypeOK
  <2>2. dropped'
    BY <1>1, <1>4
  <2> QED BY <1>1, <1>2, <1>4, <2>1, <2>2 DEF ArmedIsProgrammed, fixed
<1>5. CASE arch # "x86_64"
  <2>1. ArmedIsProgrammed'
    BY <1>1, <1>5 DEF ArmedIsProgrammed, Disarmed, deadline_ns_to_ticks, fixed
  <2> QED BY <1>2, <2>1
<1> QED BY <1>3, <1>4, <1>5

\* Every step keeps the invariant.
LEMMA NextIInv == ASSUME NoTruncation, IInv, [Next]_vars PROVE IInv'
<1>1. TypeOK'
  BY NextTypeOK DEF IInv
<1>2. ASSUME NEW c \in Contexts, set_oneshot(c) PROVE IInv'
  <2>1. PICK d \in Deadlines : Check(c, d) /\ (arch # "arm64" => capable)
    BY <1>2 DEF set_oneshot, set_oneshot_x86_64, set_oneshot_arm64, set_oneshot_riscv64
  <2> QED BY <1>1, <2>1, CheckIInv
<1>3. ASSUME NEW c \in Contexts, write_deadline(c) PROVE IInv'
  BY <1>1, <1>3, WriteIInv
<1>4. ASSUME NEW c \in Contexts, cancel_oneshot(c) PROVE IInv'
  BY <1>1, <1>4, CancelIInv
<1>5. CASE Expire
  BY <1>1, <1>5, ExpireIInv
<1>6. CASE Take
  BY <1>1, <1>6, TakeIInv
<1>7. counter <= counter + 1 /\ counter <= counter
  BY TimerAssumption DEF IInv, TypeOK
<1>8. ASSUME NEW c \in Contexts, NEW e \in BOOLEAN, set_tickless(c, e) PROVE IInv'
  BY <1>1, <1>7, <1>8, QuietStep DEF set_tickless, history
<1>9. ASSUME NEW c \in Contexts, set_timer_callback(c) PROVE IInv'
  BY <1>1, <1>7, <1>9, QuietStep DEF set_timer_callback, history
<1>10. CASE Tick
  BY <1>1, <1>7, <1>10, QuietStep DEF Tick, history
<1>11. CASE ToggleMask
  BY <1>1, <1>7, <1>11, QuietStep DEF ToggleMask, history
<1>12. CASE Return
  BY <1>1, <1>7, <1>12, QuietStep DEF Return, history
<1>13. CASE Wedged \/ UNCHANGED vars
  BY <1>1, <1>7, <1>13, QuietStep DEF Wedged, vars, history
<1>14. CASE set_global_controller \/ set_global_timer
  BY <1>1, <1>7, <1>14, QuietStep DEF set_global_controller, set_global_timer, Publish, history
<1>15. CASE dispatch_unpublished \/ dispatch_null_timer
  BY <1>1, <1>15, LostIInv
<1> QED
  BY <1>2, <1>3, <1>4, <1>5, <1>6, <1>8, <1>9, <1>10, <1>11, <1>12, <1>13, <1>14,
     <1>15 DEF Next

(***************************************************************************)
(* What the invariant implies.                                             *)
(***************************************************************************)

\* An asserted interrupt is due: flooring a deadline to ticks can make it early
\* by less than one tick, never by more.
LEMMA IInvImpliesDue == ASSUME NoTruncation, IInv PROVE AssertedOnlyWhenDue
<1> SUFFICES ASSUME Asserted, latched # "stale"
             PROVE  armed # NoDeadline /\ armed * frequency_hz < (counter + 1) * NsPerSec
  BY DEF AssertedOnlyWhenDue
<1> USE DEF IInv
<1>1. armed # NoDeadline /\ deadline_ns_to_ticks(armed) <= counter
  <2>1. CASE arch = "x86_64"
    BY <2>1 DEF Asserted, LatchedIsDue, ArmedIsProgrammed, TypeOK
  <2>2. CASE arch # "x86_64"
    <3>1. counter >= compare /\ compare # TickMax
      BY <2>2, TimerAssumption DEF Asserted, TypeOK
    <3>2. armed # NoDeadline /\ compare = deadline_ns_to_ticks(armed)
      BY <2>2, <3>1 DEF ArmedIsProgrammed, Disarmed
    <3> QED BY <3>1, <3>2, TimerAssumption DEF TypeOK
  <2> QED BY <2>1, <2>2
<1> DEFINE k == (armed * frequency_hz) \div NsPerSec
<1>2. armed \in Deadlines
  BY <1>1 DEF TypeOK
<1>3. /\ armed * frequency_hz \in Nat
      /\ k = deadline_ns_to_ticks(armed)
      /\ k \in Nat
  BY <1>2, Conversions
<1>4. armed * frequency_hz < (k + 1) * NsPerSec
  BY <1>3, DivFloor, TimerAssumption
<1>5. k <= counter /\ counter \in Nat
  BY <1>1, <1>3, TimerAssumption DEF TypeOK
<1>6. (k + 1) * NsPerSec <= (counter + 1) * NsPerSec
  <2> HIDE DEF k
  <2> QED BY <1>3, <1>5, Products, TimerAssumption
<1>7. (k + 1) * NsPerSec \in Nat /\ (counter + 1) * NsPerSec \in Nat
  <2> HIDE DEF k
  <2> QED BY <1>3, <1>5, Products, TimerAssumption
<1> HIDE DEF k
<1> QED BY <1>1, <1>3, <1>4, <1>6, <1>7

\* The invariant holds in every state of every behaviour.
THEOREM Invariance == ASSUME NoTruncation PROVE Spec => []IInv
<1>1. Init => IInv
  BY InitIInv
<1>2. IInv /\ [Next]_vars => IInv'
  BY NextIInv
<1> QED BY <1>1, <1>2, PTL DEF Spec

\* No deadline is lost between set_oneshot's Ok and its callback: it stays in
\* the comparator or, on x86_64, latched at the APIC until dispatch takes it,
\* however set_oneshot, cancel_oneshot and the interrupt interleave.
THEOREM DeadlineIsKept == ASSUME NoTruncation PROVE Spec => []ArmedIsProgrammed
<1>1. IInv => ArmedIsProgrammed
  BY DEF IInv
<1> QED BY <1>1, Invariance, PTL

\* A timer interrupt is less than one tick early, for every frequency.
THEOREM InterruptIsDue == ASSUME NoTruncation PROVE Spec => []AssertedOnlyWhenDue
<1>1. IInv => AssertedOnlyWhenDue
  BY IInvImpliesDue
<1> QED BY <1>1, Invariance, PTL
=============================================================================
