-------------------------- MODULE HalDirectProofs --------------------------
(***************************************************************************)
(* Proofs about HalDirect for any number of contexts, any tokens, regions, *)
(* counters and core ids, any clock and tables of any size and depth: what *)
(* a call does and returns was granted, a counter is the one granted, and  *)
(* map_mmio_region makes accessible what was granted and nothing else.     *)
(* The last two for a kernel that makes one call at a time and tables that *)
(* an entry can name; types hold whoever calls.                            *)
(*                                                                         *)
(* No property is inductive: a context in the middle of a call has to keep *)
(* what verify_token said, on arm64 the selection has to outlive the steps of  *)
(* the other contexts, and a walk has to know which pages the table it is  *)
(* at stands for.                                                          *)
(***************************************************************************)
EXTENDS HalDirect, Arithmetic, TLAPS

\* The functions over Contexts stay functions over Contexts.
Shapes ==
  /\ DOMAIN pc = Contexts
  /\ DOMAIN req = Contexts
  /\ DOMAIN at = Contexts
  /\ DOMAIN ret = Contexts

\* A context that is in a call, or whose call returned Ok.
Served(c) == pc[c] # "idle" \/ ret[c].result = "Ok"

\* It keeps the request that verify_token admitted, at a time that has come.
Admitted(c) ==
  Served(c) =>
    /\ req[c] \in Requests
    /\ at[c] \in Nat /\ at[c] <= now
    /\ pc[c] = "called" \/ Verified(c)

\* Inside map_mmio_region, or between the two instructions of a counter read,
\* the context is making that call; a guarded kernel keeps its selection.
CallOfPc(c) ==
  /\ pc[c] = "called" => ret[c].result # "Ok"
  /\ pc[c] \in {"walk", "alloc", "link"} => req[c].op = "map_mmio_region"
  /\ pc[c] = "mrs" => /\ arch = "arm64"
                      /\ req[c].op = "read_performance_counter"
                      /\ guarded => pmselr = req[c].arg

\* A counter read that returned Ok has the value of the counter it asked for.
CounterAsked(c) ==
  (guarded \/ arch # "arm64") /\ ret[c].result = "Ok"
    /\ req[c].op = "read_performance_counter"
  => /\ ret[c].value = req[c].arg
     /\ arch = "riscv64" => ret[c].value \in {0, 2}

\* A guarded kernel has at most one call under way.
OneAtATime ==
  guarded => \A c, d \in Contexts : pc[c] # "idle" /\ pc[d] # "idle" => c = d

PcValues == {"idle", "called", "verified", "mrs", "walk", "alloc", "link", "wild"}

\* The inductive invariant.
Inv ==
  /\ Shapes /\ now \in Nat
  /\ OneAtATime
  /\ \A c \in Contexts : pc[c] \in PcValues /\ Admitted(c) /\ CallOfPc(c) /\ CounterAsked(c)

\* The part of the invariant about one context.
Own(c) == pc[c] \in PcValues /\ Admitted(c) /\ CallOfPc(c) /\ CounterAsked(c)

----------------------------------------------------------------------------
\* A step of context c that selects no counter leaves what is known of every
\* other context as it was.
LEMMA OthersKeep ==
  ASSUME Inv, NEW c \in Contexts, NEW d \in Contexts, d # c,
         pc'[d] = pc[d], req'[d] = req[d], at'[d] = at[d], ret'[d] = ret[d],
         now' = now, arch' = arch, guarded' = guarded,
         pmselr' = pmselr \/ (pc[c] # "idle")
  PROVE  Own(d)'
<1>1. Own(d)
  BY DEF Inv, Own
<1>2. pc[d] = "mrs" /\ guarded => pmselr' = pmselr
  BY DEF Inv, OneAtATime
<1> QED
  BY <1>1, <1>2 DEF Own, Admitted, Served, Verified, CallOfPc, CounterAsked

\* A step that makes no context busy, or the only one, keeps OneAtATime.
LEMMA StaysAlone ==
  ASSUME Inv, NEW c \in Contexts, guarded' = guarded,
         \A d \in Contexts : d # c => pc'[d] = pc[d],
         \/ pc[c] # "idle"
         \/ pc'[c] = "idle"
         \/ guarded => Busy = {}
  PROVE  OneAtATime'
BY DEF Inv, OneAtATime, Busy

\* A call that ends in an error keeps nothing that has to be granted.
LEMMA FailKeeps ==
  ASSUME Inv, NEW c \in Contexts, Fail(c), UNCHANGED <<arch, guarded, now, pmselr>>
  PROVE  Inv'
<1>1. Shapes'
  BY DEF Inv, Shapes, Fail
<1>2. Own(c)'
  BY DEF Inv, Shapes, Fail, Own, Admitted, Served, CallOfPc, CounterAsked, Err, PcValues
<1>3. ASSUME NEW d \in Contexts, d # c PROVE
        pc'[d] = pc[d] /\ req'[d] = req[d] /\ at'[d] = at[d] /\ ret'[d] = ret[d]
  BY <1>3 DEF Inv, Shapes, Fail
<1>4. ASSUME NEW d \in Contexts, d # c PROVE Own(d)'
  BY <1>3, <1>4, OthersKeep
<1>5. pc'[c] = "idle"
  BY DEF Inv, Shapes, Fail
<1>6. OneAtATime'
  BY <1>3, <1>5, StaysAlone
<1> QED
  BY <1>1, <1>2, <1>4, <1>6 DEF Inv, Own

\* A call that returns Ok was admitted, and a counter it returns is the one
\* it asked for.
LEMMA SucceedKeeps ==
  ASSUME Inv, NEW c \in Contexts, NEW v, Succeed(c, v), pc[c] \notin {"idle", "called"},
         UNCHANGED <<arch, guarded, now, pmselr>>,
         (guarded \/ arch # "arm64") /\ req[c].op = "read_performance_counter"
           => v = req[c].arg /\ (arch = "riscv64" => v \in {0, 2})
  PROVE  Inv'
<1>1. Shapes'
  BY DEF Inv, Shapes, Succeed
<1>2. pc'[c] = "idle" /\ ret'[c] = Ok(v) /\ req'[c] = req[c] /\ at'[c] = at[c]
  BY DEF Inv, Shapes, Succeed
<1>3. Own(c)'
  <2>1. Admitted(c)'
    BY <1>2 DEF Inv, Admitted, Served, Verified
  <2>2. CounterAsked(c)'
    BY <1>2 DEF CounterAsked, Ok
  <2> QED
    BY <1>2, <2>1, <2>2 DEF Own, CallOfPc, PcValues
<1>4. ASSUME NEW d \in Contexts, d # c PROVE
        pc'[d] = pc[d] /\ req'[d] = req[d] /\ at'[d] = at[d] /\ ret'[d] = ret[d]
  BY <1>4 DEF Inv, Shapes, Succeed
<1>5. ASSUME NEW d \in Contexts, d # c PROVE Own(d)'
  BY <1>4, <1>5, OthersKeep
<1>6. OneAtATime'
  BY <1>2, <1>4, StaysAlone
<1> QED
  BY <1>1, <1>3, <1>5, <1>6 DEF Inv, Own

\* A step inside a call moves its program counter and, at most, the selection.
LEMMA MoveKeeps ==
  ASSUME Inv, NEW c \in Contexts, NEW p \in PcValues \ {"idle", "called"}, pc[c] # "idle",
         pc[c] # "called" \/ Verified(c),
         pc' = [pc EXCEPT ![c] = p], UNCHANGED <<req, at, ret, arch, guarded, now>>,
         p \in {"walk", "alloc", "link"} =>
           req[c].op = "map_mmio_region" /\ UNCHANGED pmselr,
         p = "mrs" => arch = "arm64" /\ req[c].op = "read_performance_counter"
                        /\ pmselr' = req[c].arg
  PROVE  Inv'
<1>1. Shapes'
  BY DEF Inv, Shapes
<1>2. pc'[c] = p
  BY DEF Inv, Shapes
<1>3. Own(c)'
  <2>1. Admitted(c)'
    BY <1>2 DEF Inv, Admitted, Served, Verified
  <2>2. CounterAsked(c)'
    BY DEF Inv, CounterAsked
  <2>3. CallOfPc(c)'
    BY <1>2 DEF CallOfPc
  <2> QED
    BY <1>2, <2>1, <2>2, <2>3 DEF Own
<1>4. ASSUME NEW d \in Contexts, d # c PROVE pc'[d] = pc[d]
  BY <1>4 DEF Inv, Shapes
<1>5. ASSUME NEW d \in Contexts, d # c PROVE Own(d)'
  BY <1>4, <1>5, OthersKeep
<1>6. OneAtATime'
  BY <1>4, StaysAlone
<1> QED
  BY <1>1, <1>3, <1>5, <1>6 DEF Inv, Own

\* A step that leaves the calls alone and does not turn the clock back.
LEMMA IdleKeeps ==
  ASSUME Inv, UNCHANGED <<arch, guarded, pmselr, pc, req, at, ret>>,
         now' \in Nat, now <= now'
  PROVE  Inv'
<1>1. ASSUME NEW c \in Contexts PROVE Own(c)'
  <2>1. Own(c)
    BY DEF Inv, Own
  <2>2. Admitted(c)'
    BY <2>1 DEF Own, Admitted, Served, Verified, Inv
  <2> QED
    BY <2>1, <2>2 DEF Own, CallOfPc, CounterAsked
<1> QED
  BY <1>1 DEF Inv, Own, Shapes, OneAtATime

----------------------------------------------------------------------------
\* The kernel stays what it is.
LEMMA GuardedStays == [Next]_vars => guarded' = guarded
BY DEF Next, Step, Begin, Refuse, Gate, read_performance_counter_x86_64,
       read_performance_counter_riscv64, select_counter_arm64, read_selected_arm64,
       map_mmio_region, Descend, alloc_table, link_table, map_page, Mapped, Call, Tick, vars

LEMMA InitInv == Init => Inv
BY DEF Init, Inv, Shapes, OneAtATime, PcValues, Admitted, Served, CallOfPc, CounterAsked,
       NotCalled

\* Call: the request and the clock are remembered.
LEMMA CallKeeps ==
  ASSUME Inv, NEW c \in Contexts, NEW r \in Requests, Call(c, r)
  PROVE  Inv'
<1>1. Shapes'
  BY DEF Inv, Shapes, Call
<1>2. pc'[c] = "called" /\ req'[c] = r /\ at'[c] = now /\ ret'[c] = NotCalled
  BY DEF Inv, Shapes, Call
<1>3. UNCHANGED <<arch, guarded, now, pmselr>>
  BY DEF Call, machine
<1>4. Own(c)'
  <2>1. Admitted(c)'
    BY <1>2, <1>3 DEF Admitted, Inv
  <2>2. CallOfPc(c)' /\ CounterAsked(c)' /\ pc'[c] \in PcValues
    BY <1>2 DEF CallOfPc, CounterAsked, NotCalled, PcValues
  <2> QED
    BY <2>1, <2>2 DEF Own
<1>5. ASSUME NEW d \in Contexts, d # c PROVE
        pc'[d] = pc[d] /\ req'[d] = req[d] /\ at'[d] = at[d] /\ ret'[d] = ret[d]
  BY <1>5 DEF Inv, Shapes, Call
<1>6. ASSUME NEW d \in Contexts, d # c PROVE Own(d)'
  BY <1>3, <1>5, <1>6, OthersKeep
<1>7. OneAtATime'
  <2>1. guarded => Busy = {}
    BY DEF Call
  <2> QED
    BY <1>3, <1>5, <2>1, StaysAlone
<1> QED
  BY <1>1, <1>3, <1>4, <1>6, <1>7 DEF Inv, Own

\* Every step of a call.
LEMMA StepKeeps ==
  ASSUME Inv, NEW c \in Contexts, Step(c)
  PROVE  Inv'
<1>a. CASE Begin(c)
  BY <1>a, MoveKeeps DEF Begin, machine, PcValues
<1>b. CASE Refuse(c)
  BY <1>b, FailKeeps DEF Refuse, machine
<1>1. CASE Gate(c)
  BY <1>1, SucceedKeeps DEF Gate, machine
<1>2. CASE read_performance_counter_x86_64(c)
  BY <1>2, SucceedKeeps DEF read_performance_counter_x86_64, Reading, machine
<1>3. CASE read_performance_counter_riscv64(c)
  <2>1. CASE req[c].arg \in {0, 2}
    BY <1>3, <2>1, SucceedKeeps DEF read_performance_counter_riscv64, Reading, machine
  <2>2. CASE req[c].arg \notin {0, 2}
    BY <1>3, <2>2, FailKeeps DEF read_performance_counter_riscv64, machine
  <2> QED
    BY <2>1, <2>2
<1>4. CASE select_counter_arm64(c)
  BY <1>4, MoveKeeps DEF select_counter_arm64, Reading, PcValues
<1>5. CASE read_selected_arm64(c)
  <2>1. arch = "arm64" /\ (guarded => pmselr = req[c].arg)
    BY <1>5 DEF read_selected_arm64, Inv, CallOfPc
  <2> QED
    BY <1>5, <2>1, SucceedKeeps DEF read_selected_arm64, machine
<1>6. CASE map_mmio_region(c)
  <2>1. CASE req[c].arg.size = 0
    BY <1>6, <2>1, FailKeeps DEF map_mmio_region, machine
  <2>2. CASE req[c].arg.size # 0
    BY <1>6, <2>2, MoveKeeps DEF map_mmio_region, machine, PcValues
  <2> QED
    BY <2>1, <2>2
<1>7. CASE Descend(c)
  <2>1. req[c].op = "map_mmio_region"
    BY <1>7 DEF Descend, Walking, Inv, CallOfPc
  <2>2. CASE Here(c) = Empty
    BY <1>7, <2>1, <2>2, MoveKeeps DEF Descend, Walking, machine, PcValues
  <2>3. CASE Here(c) # Empty
    <3>1. GoDown(c, Here(c)) /\ pc[c] = "walk" /\ UNCHANGED <<arch, guarded, now, pmselr, req, at, ret>>
      BY <1>7, <2>3 DEF Descend, Walking, machine
    <3> QED
      BY <2>1, <3>1, MoveKeeps DEF GoDown, PcValues
  <2> QED
    BY <2>2, <2>3
<1>8. CASE alloc_table(c)
  <2>1. req[c].op = "map_mmio_region"
    BY <1>8 DEF alloc_table, Inv, CallOfPc
  <2>2. CASE next >= PoolSize
    BY <1>8, <2>2, FailKeeps DEF alloc_table, machine
  <2>3. CASE ~(next >= PoolSize)
    BY <1>8, <2>1, <2>3, MoveKeeps DEF alloc_table, machine, PcValues
  <2> QED
    BY <2>2, <2>3
<1>9. CASE link_table(c)
  <2>1. req[c].op = "map_mmio_region"
    BY <1>9 DEF link_table, Inv, CallOfPc
  <2> QED
    BY <1>9, <2>1, MoveKeeps DEF link_table, GoDown, PcValues
<1>10. CASE map_page(c)
  BY <1>10, IdleKeeps DEF map_page, Inv
<1>11. CASE Mapped(c)
  <2>1. req[c].op = "map_mmio_region"
    BY <1>11 DEF Mapped, Inv, CallOfPc
  <2> QED
    BY <1>11, <2>1, SucceedKeeps DEF Mapped, machine
<1> QED
  BY <1>a, <1>b, <1>1, <1>2, <1>3, <1>4, <1>5, <1>6, <1>7, <1>8, <1>9, <1>10, <1>11 DEF Step

LEMMA NextInv == Inv /\ [Next]_vars => Inv'
<1> SUFFICES ASSUME Inv, [Next]_vars PROVE Inv'
  OBVIOUS
<1>2. CASE Tick
  BY <1>2, IdleKeeps DEF Tick, machine, Inv
<1>3. CASE UNCHANGED vars
  BY <1>3, IdleKeeps DEF vars, machine, Inv
<1> QED
  BY <1>2, <1>3, CallKeeps, StepKeeps DEF Next

----------------------------------------------------------------------------
LEMMA InvGrants == Inv => OkMeansGranted
<1> SUFFICES ASSUME Inv, NEW c \in Contexts,
                    pc[c] \notin {"idle", "called"} \/ ret[c].result = "Ok",
                    ~(req[c].op = "pin_thread_to_core" /\ req[c].arg >= U32)
             PROVE  at[c] <= now /\ Granting(c)
  BY DEF OkMeansGranted
<1> DEFINE r == req[c]
<1>0. Served(c) /\ pc[c] # "called"
  BY DEF Served, Inv, CallOfPc
<1>1. /\ r \in Requests /\ at[c] \in Nat /\ at[c] <= now
      /\ verify_token(r.token, required_scope(r), at[c])
  BY <1>0 DEF Inv, Admitted, Verified
<1>2. r.token.scope = required_scope(r) /\ ~(at[c] >= r.token.expires_at_ns)
        /\ r.token.signature = <<r.token.scope, r.token.expires_at_ns>>
  BY <1>1 DEF verify_token, covers, is_expired, verify_signature
<1>3. r.token.expires_at_ns \in Nat
  <2>1. r.token \in CapabilityTokens
    BY <1>1, HalDirectAssumption
  <2>2. PICK e \in Expiries : r.token.expires_at_ns = e
    BY <2>1 DEF CapabilityTokens, Token, with_signature
  <2> QED
    BY <2>2, HalDirectAssumption
<1>4. r.op = "pin_thread_to_core" => r.arg % U32 = r.arg
  <2> SUFFICES ASSUME r.op = "pin_thread_to_core" PROVE r.arg % U32 = r.arg
    OBVIOUS
  <2>1. r.arg \in Nat /\ U32 \in Nat \ {0}
    BY <1>1, HalDirectAssumption
  <2>2. r.arg < U32
    BY <2>1
  <2> QED
    BY <2>1, <2>2, ModOfSmall
<1>5. r.op \in {"map_mmio_region", "read_performance_counter", "pin_thread_to_core",
                "set_numa_policy"}
  BY <1>1, HalDirectAssumption
<1> QED
  BY <1>1, <1>2, <1>3, <1>4, <1>5 DEF Granting, required_scope

\* Nothing is done and no Ok returned without a token the Security Broker signed
\* for this operation and argument, unexpired when the call began: for any
\* tokens, any number of contexts and any interleaving of their calls with the
\* clock (verify_token in the DirectAccess of every architecture).
THEOREM CallsAreGranted == Spec => []OkMeansGranted
<1>1. Inv /\ [Next]_vars => Inv'
  BY NextInv
<1> QED
  BY <1>1, InitInv, InvGrants, PTL DEF Spec

LEMMA InvCounter == Inv => CounterIsTheOneGranted
<1> SUFFICES ASSUME Inv, NEW c \in Contexts, guarded \/ arch # "arm64",
                    ret[c].result = "Ok", req[c].op = "read_performance_counter"
             PROVE  /\ ret[c].value = req[c].token.scope.of
                    /\ arch = "riscv64" => ret[c].value \in {0, 2}
  BY DEF CounterIsTheOneGranted
<1>1. ret[c].value = req[c].arg /\ (arch = "riscv64" => ret[c].value \in {0, 2})
  BY DEF Inv, CounterAsked
<1>2. verify_token(req[c].token, required_scope(req[c]), at[c])
  BY DEF Inv, Admitted, Served, CallOfPc, Verified
<1>3. req[c].token.scope = PerformanceCounter(req[c].arg)
  BY <1>2 DEF verify_token, covers, required_scope
<1> QED
  BY <1>1, <1>3 DEF PerformanceCounter

\* The value a counter read returns is that of the counter the token names, for
\* any number of contexts: on arm64 for a kernel that lets no other call in
\* between the write of PMSELR_EL0 and the read of PMXEVCNTR_EL0.
THEOREM CounterIsGranted == Spec => []CounterIsTheOneGranted
<1>1. Inv /\ [Next]_vars => Inv'
  BY NextInv
<1> QED
  BY <1>1, InitInv, InvCounter, PTL DEF Spec

----------------------------------------------------------------------------
(***************************************************************************)
(* map_mmio_region: what the tables hold, for tables of any depth.         *)
(*                                                                         *)
(* First the powers of ENTRIES_PER_TABLE and the indices of a page.        *)
(***************************************************************************)
LEMMA DirectConstants ==
  /\ Levels \in Nat \ {0} /\ Entries \in Nat \ {0} /\ PageSize \in Nat \ {0}
  /\ PoolSize \in Nat /\ MaxNow \in Nat /\ FieldPages \in Nat \ {0} /\ PoolBase \in Nat
  /\ Regions \subseteq [base : Nat, size : Nat]
BY HalDirectAssumption

LEMMA PowerRecursion ==
  /\ Power[0] = 1
  /\ \A k \in 0..Levels : Power[k] \in Nat \ {0}
  /\ \A k \in 1..Levels : Power[k] = Entries * Power[k - 1]
<1>0. Levels \in Nat /\ Entries \in Nat \ {0}
  BY DirectConstants
<1>1. PICK F : F = [x \in (1..Levels) \X (Nat \ {0}) |-> Entries * x[2]]
  OBVIOUS
<1>2. F \in [(1..Levels) \X (Nat \ {0}) -> Nat \ {0}]
  <2>1. \A x \in (1..Levels) \X (Nat \ {0}) : Entries * x[2] \in Nat \ {0}
    BY <1>0
  <2> QED BY <1>1, <2>1
<1>3. PICK f \in [0..Levels -> Nat \ {0}] :
        f[0] = 1 /\ \A k \in 1..Levels : f[k] = F[<<k, f[k - 1]>>]
  <2>1. PICK S : S = Nat \ {0}
    OBVIOUS
  <2>2. PICK one \in S : one = 1
    BY <2>1
  <2>3. F \in [(1..Levels) \X S -> S]
    BY <1>2, <2>1
  <2>4. Leads(F, Levels, S)
    BY <2>3 DEF Leads
  <2>5. \E f : Follows(f, F, Levels, S, one)
    BY <1>0, <2>2, <2>4, Recursion
  <2> QED BY <2>1, <2>2, <2>5 DEF Follows
<1>4. \A k \in 1..Levels : f[k] = Entries * f[k - 1]
  <2> SUFFICES ASSUME NEW k \in 1..Levels PROVE f[k] = Entries * f[k - 1]
    OBVIOUS
  <2>1. k - 1 \in 0..Levels
    BY <1>0
  <2>2. <<k, f[k - 1]>> \in (1..Levels) \X (Nat \ {0})
    BY <1>3, <2>1
  <2> QED BY <1>1, <1>3, <2>2
<1>5. f = [n \in 0..Levels |-> IF n = 0 THEN 1 ELSE Entries * f[n - 1]]
  <2>1. \A n \in 0..Levels : f[n] = IF n = 0 THEN 1 ELSE Entries * f[n - 1]
    BY <1>0, <1>3, <1>4
  <2> QED BY <1>3, <2>1
<1>6. Power = [n \in 0..Levels |-> IF n = 0 THEN 1 ELSE Entries * Power[n - 1]]
  BY <1>5 DEF Power
<1>7. Power[0] = 1 /\ \A k \in 1..Levels : Power[k] = Entries * Power[k - 1]
  BY <1>0, <1>6
<1>8. \A k \in 0..Levels : Power[k] \in Nat \ {0}
  <2> DEFINE T == {k \in 0..Levels : Power[k] \in Nat \ {0}}
  <2>1. 0 \in T
    BY <1>0, <1>7
  <2>2. ASSUME NEW k \in 1..Levels, k - 1 \in T PROVE k \in T
    <3>1. Power[k - 1] \in Nat \ {0} /\ Power[k] = Entries * Power[k - 1]
      BY <1>7, <2>2
    <3>2. Power[k] \in Nat \ {0}
      BY <1>0, <3>1
    <3> QED BY <3>2
  <2> HIDE DEF T
  <2>3. 0..Levels \subseteq T
    BY <1>0, <2>1, <2>2, Inductive
  <2> QED BY <2>3 DEF T
<1> QED BY <1>7, <1>8

\* The page, counted in the span of a whole table of level l.
Prefix(p, l) == p \div (Stride(l) * Entries)

LEMMA StrideFacts ==
  /\ Stride(Levels - 1) = 1 /\ Stride(0) * Entries = Power[Levels] /\ Power[Levels] \in Nat \ {0}
  /\ \A l \in 0..(Levels - 1) : Stride(l) \in Nat \ {0}
  /\ \A l \in 0..(Levels - 1) : l < Levels - 1 => Stride(l) = Stride(l + 1) * Entries
<1>0. Levels \in Nat \ {0} /\ Entries \in Nat \ {0}
  BY DirectConstants
<1>1. Stride(Levels - 1) = 1
  <2>1. Levels - 1 - (Levels - 1) = 0
    BY <1>0
  <2> QED BY <2>1, PowerRecursion DEF Stride
<1>2. \A l \in 0..(Levels - 1) : Stride(l) \in Nat \ {0}
  <2>1. \A l \in 0..(Levels - 1) : Levels - 1 - l \in 0..Levels
    BY <1>0
  <2> QED BY <2>1, PowerRecursion DEF Stride
<1>3. Stride(0) * Entries = Power[Levels] /\ Power[Levels] \in Nat \ {0}
  <2>1. /\ Levels \in 1..Levels /\ Levels \in 0..Levels
        /\ Levels - 1 - 0 = Levels - 1 /\ Levels - 1 \in 0..Levels
    BY <1>0
  <2>2. /\ Power[Levels] = Entries * Power[Levels - 1] /\ Power[Levels - 1] \in Nat
        /\ Power[Levels] \in Nat \ {0}
    BY <2>1, PowerRecursion
  <2>3. Stride(0) = Power[Levels - 1]
    BY <2>1 DEF Stride
  <2> QED BY <1>0, <2>2, <2>3
<1>4. \A l \in 0..(Levels - 1) : l < Levels - 1 => Stride(l) = Stride(l + 1) * Entries
  <2> SUFFICES ASSUME NEW l \in 0..(Levels - 1), l < Levels - 1
               PROVE  Stride(l) = Stride(l + 1) * Entries
    OBVIOUS
  <2>1. PICK k \in 1..Levels : k = Levels - 1 - l
    BY <1>0
  <2>2. Power[k] = Entries * Power[k - 1]
    BY PowerRecursion
  <2>3. k - 1 = Levels - 1 - (l + 1) /\ k - 1 \in 0..Levels
    BY <1>0, <2>1
  <2>4. Power[k - 1] \in Nat
    BY <2>3, PowerRecursion
  <2>5. Stride(l) = Power[k] /\ Stride(l + 1) = Power[k - 1]
    BY <2>1, <2>3 DEF Stride
  <2> QED BY <1>0, <2>2, <2>4, <2>5
<1> QED BY <1>1, <1>2, <1>3, <1>4

\* The entry for a page in a table that the page belongs to leads to a table
\* that it belongs to, or at the last level to the page itself.
LEMMA IndexFacts ==
  ASSUME NEW p \in Nat, NEW l \in 0..(Levels - 1)
  PROVE  /\ Index(p, l) \in Indices /\ Prefix(p, l) \in Nat
         /\ l < Levels - 1 => Prefix(p, l) * Entries + Index(p, l) = Prefix(p, l + 1)
         /\ l = Levels - 1 => Prefix(p, l) * Entries + Index(p, l) = p
<1>0. Entries \in Nat \ {0} /\ Stride(l) \in Nat \ {0}
  BY DirectConstants, StrideFacts
<1>1. PICK s \in Nat \ {0} : s = Stride(l)
  BY <1>0
<1>2. PICK x \in Nat : x = p \div s
  BY <1>1, DivMod
<1>3. Prefix(p, l) = x \div Entries
  BY <1>0, <1>1, <1>2, DivDiv DEF Prefix
<1>4. Index(p, l) = x % Entries
  BY <1>1, <1>2 DEF Index
<1>5. /\ x \div Entries \in Nat /\ x % Entries \in 0..(Entries - 1)
      /\ x = (x \div Entries) * Entries + (x % Entries)
  BY <1>0, <1>2, DivMod
<1>6. l < Levels - 1 => x = Prefix(p, l + 1)
  BY <1>1, <1>2, StrideFacts DEF Prefix
<1>7. l = Levels - 1 => x = p
  <2>1. p \div 1 = p
    OBVIOUS
  <2> QED BY <1>1, <1>2, <2>1, StrideFacts
<1>8. Prefix(p, l) * Entries + Index(p, l) = x
  BY <1>3, <1>4, <1>5
<1> QED BY <1>3, <1>4, <1>5, <1>6, <1>7, <1>8 DEF Indices

LEMMA RootPrefix == ASSUME NEW p \in Pages PROVE p \in Nat /\ Prefix(p, 0) = 0
<1>1. PICK n \in Nat \ {0} : n = Power[Levels] /\ n = Stride(0) * Entries
  BY StrideFacts
<1>2. p \in Nat /\ p < n
  BY <1>1 DEF Pages
<1>3. p \div n = 0
  BY <1>1, <1>2
<1> QED BY <1>1, <1>2, <1>3 DEF Prefix

\* The pages of a region.
LEMMA RegionPages ==
  ASSUME NEW r \in Regions
  PROVE  /\ FirstPage(r) \in Nat /\ LastPage(r) \in Int
         /\ r.size > 0 => FirstPage(r) <= LastPage(r)
         /\ \A p \in Nat : Touches(p, r) => FirstPage(r) <= p /\ p <= LastPage(r)
         /\ \A p \in Nat : r.size > 0 /\ FirstPage(r) <= p /\ p <= LastPage(r) => Touches(p, r)
         /\ FirstPage(r) * PageSize <= r.base /\ r.base < FirstPage(r) * PageSize + PageSize
<1>0. PageSize \in Nat \ {0} /\ r.base \in Nat /\ r.size \in Nat
  BY DirectConstants
<1>1. PICK b \in Nat, e \in Nat, n \in Nat \ {0} : b = r.base /\ e = r.base + r.size /\ n = PageSize
  BY <1>0
<1>2. PICK f \in Nat : f = b \div n /\ f * n \in Nat /\ f * n <= b /\ b < f * n + n
  <2>1. b \div n \in Nat /\ b % n \in 0..(n - 1) /\ b = (b \div n) * n + (b % n)
    BY DivMod
  <2>2. (b \div n) * n \in Nat
    BY <2>1, Product
  <2> QED BY <2>1, <2>2
<1>3. PICK x \in Nat : x = e + n - 1
  OBVIOUS
<1>4. PICK g \in Nat : g = x \div n /\ g * n \in Nat /\ g * n <= x /\ x < g * n + n
  <2>1. x \div n \in Nat /\ x % n \in 0..(n - 1) /\ x = (x \div n) * n + (x % n)
    BY DivMod
  <2>2. (x \div n) * n \in Nat
    BY <2>1, Product
  <2> QED BY <2>1, <2>2
<1>5. FirstPage(r) = f /\ LastPage(r) = g - 1
  BY <1>1, <1>2, <1>3, <1>4 DEF FirstPage, LastPage
\* Pages and their first addresses are ordered alike.
<1>6. \A p \in Nat, q \in Nat : p < q => p * n + n <= q * n
  <2> SUFFICES ASSUME NEW p \in Nat, NEW q \in Nat, p < q PROVE p * n + n <= q * n
    OBVIOUS
  <2>1. (p + 1) * n <= q * n
    BY Monotone
  <2>2. (p + 1) * n = p * n + n
    OBVIOUS
  <2> QED BY <2>1, <2>2
<1>7. ASSUME NEW p \in Nat
      PROVE  /\ Touches(p, r) => f <= p /\ p <= g - 1
             /\ r.size > 0 /\ f <= p /\ p <= g - 1 => Touches(p, r)
  <2>1. PICK m \in Nat : m = p * n /\ (p + 1) * n = m + n
    BY Product
  <2>2. Touches(p, r) <=> r.size > 0 /\ m < e /\ m + n > b
    BY <1>1, <2>1 DEF Touches
  <2>3. /\ p < f => m + n <= f * n
        /\ p >= f => f * n <= m
        /\ p < g => m + n <= g * n
        /\ p >= g => g * n <= m
    <3>1. /\ p < f => m + n <= f * n
          /\ p < g => m + n <= g * n
      BY <1>6, <2>1
    <3>2. p >= f => f * n <= m
      BY <2>1, Monotone
    <3>3. p >= g => g * n <= m
      BY <2>1, Monotone
    <3> QED BY <3>1, <3>2, <3>3
  <2>4. Touches(p, r) => f <= p
    BY <1>2, <2>2, <2>3
  <2>5. Touches(p, r) => p <= g - 1
    BY <1>3, <1>4, <2>2, <2>3
  <2>6. ASSUME r.size > 0, f <= p, p <= g - 1 PROVE Touches(p, r)
    <3>1. m + n > b
      BY <1>2, <2>3, <2>6
    <3>2. m + n <= x
      BY <1>4, <2>3, <2>6
    <3> QED BY <1>3, <2>2, <2>6, <3>1, <3>2
  <2> QED BY <2>4, <2>5, <2>6
<1>8. r.size > 0 => f <= g - 1
  <2>1. ASSUME r.size > 0 PROVE f < g
    <3>1. b < e
      BY <1>0, <1>1, <2>1
    <3>2. g < f => g * n + n <= f * n
      BY <1>6
    <3>3. g = f => g * n = f * n
      OBVIOUS
    <3> QED BY <1>2, <1>3, <1>4, <3>1, <3>2, <3>3
  <2> QED BY <2>1
<1> QED BY <1>1, <1>2, <1>5, <1>7, <1>8

----------------------------------------------------------------------------
(***************************************************************************)
(* The tables, as values: T is tables, n the pool cursor.  A table of the  *)
(* pool has one level and one prefix, the pages below it (lv, pre); an     *)
(* entry that is not Empty leads one level down, or to the page itself.    *)
(***************************************************************************)
LeadsDown(T, n, lv, pre, t, i) ==
  /\ lv[t] < Levels - 1
  /\ \E k \in 1..n : T[t][i] = TableEntry(k) /\ lv[k] = lv[t] + 1
                       /\ pre[k] = pre[t] * Entries + i

MapsPage(T, lv, pre, t, i) == lv[t] = Levels - 1 /\ T[t][i] = PageEntry(pre[t] * Entries + i)

Labelled(T, n, lv, pre) ==
  /\ T \in [Tables -> [Indices -> AllEntries]] /\ n \in 0..PoolSize
  /\ lv \in [Tables -> 0..(Levels - 1)] /\ pre \in [Tables -> Nat]
  /\ lv[0] = 0 /\ pre[0] = 0
  /\ \A t \in Tables, i \in Indices :
       T[t][i] # Empty =>
         t <= n /\ (LeadsDown(T, n, lv, pre, t, i) \/ MapsPage(T, lv, pre, t, i))

\* Table t has the level and the prefix of the walk to page p.
On(n, lv, pre, t, p, l) ==
  /\ p \in Nat /\ l \in 0..(Levels - 1)
  /\ t \in Tables /\ t <= n /\ lv[t] = l /\ pre[t] = Prefix(p, l)

\* The walk to page p reaches table t at level l.
PathTo(T, p, l, t) ==
  \E ts \in [0..l -> Tables] :
    /\ ts[0] = 0 /\ ts[l] = t
    /\ \A j \in 1..l : T[ts[j - 1]][Index(p, j - 1)] = TableEntry(ts[j])

MappedIn(T, p) ==
  \E t \in Tables : PathTo(T, p, Levels - 1, t) /\ T[t][Index(p, Levels - 1)] = PageEntry(p)

\* Entries are written once: what U has that T had not was Empty in T.
Grows(T, U) == \A t \in Tables, i \in Indices : T[t][i] # Empty => U[t][i] = T[t][i]

LEMMA EntryFacts ==
  /\ \A a, b : TableEntry(a) # PageEntry(b)
  /\ \A a : TableEntry(a) # Empty /\ PageEntry(a) # Empty
  /\ Empty \in AllEntries
  /\ \A k \in 1..PoolSize : TableEntry(k) \in AllEntries
  /\ \A p \in Pages : PageEntry(p) \in AllEntries
<1>1. /\ \A a, b : TableEntry(a) # PageEntry(b)
      /\ \A a : TableEntry(a) # Empty /\ PageEntry(a) # Empty
  BY DEF TableEntry, PageEntry, Empty
<1>2. /\ Empty \in AllEntries
      /\ \A k \in 1..PoolSize : TableEntry(k) \in AllEntries
      /\ \A p \in Pages : PageEntry(p) \in AllEntries
  BY DEF AllEntries
<1> QED BY <1>1, <1>2

\* An entry can name every page: no two share one.
LEMMA PageEntryNames ==
  ASSUME NEW p \in Pages, NEW q \in Pages, PageEntry(p) = PageEntry(q)
  PROVE  p = q
<1>1. FieldPages \in Nat \ {0} /\ Power[Levels] \in Nat /\ Power[Levels] <= FieldPages
  BY DirectConstants, StrideFacts, FieldAssumption
<1>2. p \in Nat /\ p < FieldPages /\ q \in Nat /\ q < FieldPages
  BY <1>1 DEF Pages
<1>3. p % FieldPages = p /\ q % FieldPages = q
  BY <1>1, <1>2, ModOfSmall
<1>4. PageEntry(p).to = p % FieldPages /\ PageEntry(q).to = q % FieldPages
  BY DEF PageEntry
<1> QED BY <1>3, <1>4

\* The pointer to a table survives the entry.
LEMMA FollowedBack ==
  ASSUME PoolFits, NEW k \in Tables
  PROVE  Followed(TableEntry(k)) = k
<1>1. /\ FieldPages \in Nat \ {0} /\ PoolBase \in Nat /\ PoolSize \in Nat /\ k \in Nat
      /\ PoolBase + k \in Nat /\ PoolBase + k < FieldPages
  BY DirectConstants DEF PoolFits, Tables
<1>2. (PoolBase + k) % FieldPages = PoolBase + k
  BY <1>1, ModOfSmall
<1>3. TableEntry(k).to = PoolBase + k
  BY DEF TableEntry
<1> QED BY <1>1, <1>2, <1>3 DEF Followed

\* One entry is written.
TablesTyped(T) == T \in [Tables -> [Indices -> AllEntries]]
Written(U, T, t, i, e) == U = [T EXCEPT ![t][i] = e]

LEMMA WriteEntry ==
  ASSUME NEW T, TablesTyped(T), NEW t \in Tables, NEW i \in Indices,
         NEW e \in AllEntries, NEW U, Written(U, T, t, i, e)
  PROVE  /\ U \in [Tables -> [Indices -> AllEntries]] /\ U[t][i] = e
         /\ \A s \in Tables, j \in Indices : s # t \/ j # i => U[s][j] = T[s][j]
<1>1. PICK row : row = [T[t] EXCEPT ![i] = e]
  OBVIOUS
<1>2. T \in [Tables -> [Indices -> AllEntries]] /\ T[t] \in [Indices -> AllEntries]
  BY DEF TablesTyped
<1>3. /\ row \in [Indices -> AllEntries] /\ row[i] = e
      /\ \A j \in Indices : j # i => row[j] = T[t][j]
  BY <1>1, <1>2
<1>4. U = [T EXCEPT ![t] = row]
  BY <1>1, <1>2 DEF Written
<1>5. /\ U \in [Tables -> [Indices -> AllEntries]] /\ U[t] = row
      /\ \A s \in Tables : s # t => U[s] = T[s]
  BY <1>2, <1>3, <1>4
<1> QED BY <1>3, <1>5

\* What the walk finds: below the last level a table of the page's walk, at the
\* last level the page.
LEMMA WalkStep ==
  ASSUME NEW T, NEW n, NEW lv, NEW pre, Labelled(T, n, lv, pre),
         NEW t, NEW p, NEW l, On(n, lv, pre, t, p, l), T[t][Index(p, l)] # Empty
  PROVE  /\ l < Levels - 1 => \E k \in 1..n : /\ T[t][Index(p, l)] = TableEntry(k)
                                              /\ On(n, lv, pre, k, p, l + 1)
         /\ l = Levels - 1 => T[t][Index(p, l)] = PageEntry(p)
<1>0. Levels \in Nat \ {0} /\ PoolSize \in Nat /\ n \in 0..PoolSize
  BY DirectConstants DEF Labelled
<1>1. p \in Nat /\ l \in 0..(Levels - 1) /\ t \in Tables /\ lv[t] = l /\ pre[t] = Prefix(p, l)
  BY DEF On
<1>2. PICK i \in Indices : i = Index(p, l)
  BY <1>1, IndexFacts
<1>3. LeadsDown(T, n, lv, pre, t, i) \/ MapsPage(T, lv, pre, t, i)
  BY <1>1, <1>2 DEF Labelled
<1>4. ASSUME l < Levels - 1
      PROVE  \E k \in 1..n : T[t][i] = TableEntry(k) /\ On(n, lv, pre, k, p, l + 1)
  <2>1. PICK k \in 1..n : T[t][i] = TableEntry(k) /\ lv[k] = lv[t] + 1
                            /\ pre[k] = pre[t] * Entries + i
    BY <1>0, <1>1, <1>3, <1>4 DEF LeadsDown, MapsPage
  <2>2. pre[k] = Prefix(p, l + 1)
    BY <1>1, <1>2, <1>4, <2>1, IndexFacts
  <2>3. l + 1 \in 0..(Levels - 1) /\ k \in Tables /\ k <= n
    BY <1>0, <1>1, <1>4 DEF Tables
  <2> QED BY <1>1, <2>1, <2>2, <2>3 DEF On
<1>5. ASSUME l = Levels - 1 PROVE T[t][i] = PageEntry(p)
  <2>1. T[t][i] = PageEntry(pre[t] * Entries + i)
    BY <1>0, <1>1, <1>3, <1>5 DEF LeadsDown, MapsPage
  <2> QED BY <1>1, <1>2, <1>5, <2>1, IndexFacts
<1> QED BY <1>2, <1>4, <1>5

Relabelled(f, t, x) == [f EXCEPT ![t] = x]

\* alloc_table and the link: the next table of the pool takes its label.
LEMMA LinkLabelled ==
  ASSUME NEW T, NEW n, NEW lv, NEW pre, Labelled(T, n, lv, pre), n < PoolSize,
         NEW t, NEW p, NEW l, On(n, lv, pre, t, p, l), l < Levels - 1,
         T[t][Index(p, l)] = Empty,
         NEW U, Written(U, T, t, Index(p, l), TableEntry(n + 1)),
         NEW lv2, lv2 = Relabelled(lv, n + 1, l + 1),
         NEW pre2, pre2 = Relabelled(pre, n + 1, Prefix(p, l + 1))
  PROVE  /\ Labelled(U, n + 1, lv2, pre2) /\ Grows(T, U)
         /\ On(n + 1, lv2, pre2, n + 1, p, l + 1) /\ U[t][Index(p, l)] = TableEntry(n + 1)
         /\ \A s \in Tables, i \in Indices : U[s][i] # T[s][i] => U[s][i] = TableEntry(n + 1)
<1>0. /\ Levels \in Nat \ {0} /\ PoolSize \in Nat /\ n \in 0..PoolSize
      /\ n + 1 \in Tables /\ n + 1 \in 1..PoolSize /\ n \in Nat
  BY DirectConstants DEF Labelled, Tables
<1>1. /\ p \in Nat /\ l \in 0..(Levels - 1) /\ t \in Tables /\ t <= n /\ lv[t] = l
      /\ pre[t] = Prefix(p, l)
  BY DEF On
<1>2. l + 1 \in 0..(Levels - 1)
  BY <1>0, <1>1
<1>3. PICK i \in Indices : i = Index(p, l)
  BY <1>1, IndexFacts
<1>4. Prefix(p, l + 1) = pre[t] * Entries + i /\ Prefix(p, l + 1) \in Nat
  <2>1. Prefix(p, l) * Entries + Index(p, l) = Prefix(p, l + 1)
    BY <1>1, IndexFacts
  <2>2. PICK k \in 0..(Levels - 1) : k = l + 1
    BY <1>2
  <2>3. Prefix(p, k) \in Nat
    BY <1>1, IndexFacts
  <2> QED BY <1>1, <1>3, <2>1, <2>2, <2>3
<1>5. PICK e \in AllEntries : e = TableEntry(n + 1)
  BY <1>0, EntryFacts
<1>6. /\ T \in [Tables -> [Indices -> AllEntries]] /\ lv \in [Tables -> 0..(Levels - 1)]
      /\ pre \in [Tables -> Nat] /\ lv[0] = 0 /\ pre[0] = 0
  BY DEF Labelled
<1>7. TablesTyped(T) /\ Written(U, T, t, i, e)
  BY <1>3, <1>5, <1>6 DEF TablesTyped, Written
<1>8. /\ U \in [Tables -> [Indices -> AllEntries]] /\ U[t][i] = e
      /\ \A s \in Tables, j \in Indices : s # t \/ j # i => U[s][j] = T[s][j]
  BY <1>1, <1>7, WriteEntry
<1>9. /\ lv2 \in [Tables -> 0..(Levels - 1)] /\ lv2[n + 1] = l + 1
      /\ \A s \in Tables : s # n + 1 => lv2[s] = lv[s]
  BY <1>0, <1>2, <1>6 DEF Relabelled
<1>10. /\ pre2 \in [Tables -> Nat] /\ pre2[n + 1] = Prefix(p, l + 1)
       /\ \A s \in Tables : s # n + 1 => pre2[s] = pre[s]
  BY <1>0, <1>4, <1>6 DEF Relabelled
<1>11. lv2[0] = 0 /\ pre2[0] = 0
  <2>1. 0 \in Tables /\ 0 # n + 1
    BY <1>0 DEF Tables
  <2> QED BY <1>6, <1>9, <1>10, <2>1
<1>12. ASSUME NEW s \in Tables, NEW j \in Indices, U[s][j] # Empty
       PROVE  s <= n + 1 /\ (LeadsDown(U, n + 1, lv2, pre2, s, j) \/ MapsPage(U, lv2, pre2, s, j))
  <2>1. CASE s = t /\ j = i
    <3>1. s # n + 1 /\ s <= n + 1
      BY <1>0, <1>1, <2>1 DEF Tables
    <3>2. lv2[s] = l /\ pre2[s] = pre[t]
      BY <1>1, <1>9, <1>10, <2>1, <3>1
    <3>3. n + 1 \in 1..(n + 1)
      BY <1>0
    <3> QED BY <1>4, <1>5, <1>8, <1>9, <1>10, <2>1, <3>1, <3>2, <3>3 DEF LeadsDown
  <2>2. CASE ~(s = t /\ j = i)
    <3>1. U[s][j] = T[s][j]
      BY <1>8, <2>2
    <3>2. s <= n /\ (LeadsDown(T, n, lv, pre, s, j) \/ MapsPage(T, lv, pre, s, j))
      BY <1>12, <3>1 DEF Labelled
    <3>3. s # n + 1 /\ s <= n + 1
      BY <1>0, <3>2 DEF Tables
    <3>4. lv2[s] = lv[s] /\ pre2[s] = pre[s]
      BY <1>9, <1>10, <3>3
    <3>5. ASSUME NEW k \in 1..n PROVE k \in 1..(n + 1) /\ lv2[k] = lv[k] /\ pre2[k] = pre[k]
      <4>1. k \in 1..(n + 1) /\ k \in Tables /\ k # n + 1
        BY <1>0 DEF Tables
      <4> QED BY <1>9, <1>10, <4>1
    <3>6. LeadsDown(T, n, lv, pre, s, j) => LeadsDown(U, n + 1, lv2, pre2, s, j)
      BY <3>1, <3>4, <3>5 DEF LeadsDown
    <3>7. MapsPage(T, lv, pre, s, j) => MapsPage(U, lv2, pre2, s, j)
      BY <3>1, <3>4 DEF MapsPage
    <3> QED BY <3>2, <3>3, <3>6, <3>7
  <2> QED BY <2>1, <2>2
<1>13. n + 1 \in 0..PoolSize
  BY <1>0
<1>14. Labelled(U, n + 1, lv2, pre2)
  BY <1>8, <1>9, <1>10, <1>11, <1>12, <1>13 DEF Labelled
<1>15. Grows(T, U)
  BY <1>3, <1>8 DEF Grows
<1>16. On(n + 1, lv2, pre2, n + 1, p, l + 1)
  BY <1>0, <1>1, <1>2, <1>9, <1>10 DEF On
<1> QED BY <1>3, <1>5, <1>8, <1>14, <1>15, <1>16

\* map_page: the leaf.
LEMMA LeafLabelled ==
  ASSUME NEW T, NEW n, NEW lv, NEW pre, Labelled(T, n, lv, pre),
         NEW t, NEW p, NEW l, On(n, lv, pre, t, p, l), l = Levels - 1, p \in Pages,
         NEW U, Written(U, T, t, Index(p, l), PageEntry(p))
  PROVE  /\ Labelled(U, n, lv, pre) /\ Grows(T, U) /\ U[t][Index(p, l)] = PageEntry(p)
         /\ \A s \in Tables, i \in Indices : U[s][i] # T[s][i] => U[s][i] = PageEntry(p)
<1>1. /\ p \in Nat /\ l \in 0..(Levels - 1) /\ t \in Tables /\ t <= n /\ lv[t] = l
      /\ pre[t] = Prefix(p, l)
  BY DEF On
<1>2. PICK i \in Indices : i = Index(p, l)
  BY <1>1, IndexFacts
<1>3. pre[t] * Entries + i = p
  BY <1>1, <1>2, IndexFacts
<1>4. PICK e \in AllEntries : e = PageEntry(p)
  BY EntryFacts
<1>5. T \in [Tables -> [Indices -> AllEntries]]
  BY DEF Labelled
<1>6. TablesTyped(T) /\ Written(U, T, t, i, e)
  BY <1>2, <1>4, <1>5 DEF TablesTyped, Written
<1>7. /\ U \in [Tables -> [Indices -> AllEntries]] /\ U[t][i] = e
      /\ \A s \in Tables, j \in Indices : s # t \/ j # i => U[s][j] = T[s][j]
  BY <1>1, <1>6, WriteEntry
<1>8. ASSUME NEW s \in Tables, NEW j \in Indices, U[s][j] # Empty
      PROVE  s <= n /\ (LeadsDown(U, n, lv, pre, s, j) \/ MapsPage(U, lv, pre, s, j))
  <2>1. CASE s = t /\ j = i
    BY <1>1, <1>3, <1>4, <1>7, <2>1 DEF MapsPage
  <2>2. CASE ~(s = t /\ j = i)
    <3>1. U[s][j] = T[s][j]
      BY <1>7, <2>2
    <3>2. s <= n /\ (LeadsDown(T, n, lv, pre, s, j) \/ MapsPage(T, lv, pre, s, j))
      BY <1>8, <3>1 DEF Labelled
    <3> QED BY <3>1, <3>2 DEF LeadsDown, MapsPage
  <2> QED BY <2>1, <2>2
<1>9. Labelled(U, n, lv, pre)
  BY <1>7, <1>8 DEF Labelled
<1>10. T[t][i] # Empty => T[t][i] = e
  BY <1>2, <1>4, WalkStep
<1>11. Grows(T, U)
  BY <1>7, <1>10 DEF Grows
<1> QED BY <1>2, <1>4, <1>7, <1>9, <1>11

----------------------------------------------------------------------------
LEMMA PathStarts == ASSUME NEW T, NEW p PROVE PathTo(T, p, 0, 0)
<1>1. 0 \in Tables
  BY DirectConstants DEF Tables
<1>2. PICK ts : ts = [j \in 0..0 |-> 0]
  OBVIOUS
<1>3. ts \in [0..0 -> Tables] /\ ts[0] = 0
  BY <1>1, <1>2
<1> QED BY <1>3 DEF PathTo

LEMMA PathExtends ==
  ASSUME NEW T, NEW p, NEW l \in Nat, NEW t, PathTo(T, p, l, t),
         NEW k \in Tables, T[t][Index(p, l)] = TableEntry(k)
  PROVE  PathTo(T, p, l + 1, k)
<1>1. PICK ts \in [0..l -> Tables] :
        /\ ts[0] = 0 /\ ts[l] = t
        /\ \A j \in 1..l : T[ts[j - 1]][Index(p, j - 1)] = TableEntry(ts[j])
  BY DEF PathTo
<1>2. PICK us : us = [j \in 0..(l + 1) |-> IF j = l + 1 THEN k ELSE ts[j]]
  OBVIOUS
<1>3. us \in [0..(l + 1) -> Tables] /\ us[l + 1] = k /\ us[0] = 0
  BY <1>1, <1>2
<1>4. \A j \in 0..l : us[j] = ts[j]
  BY <1>2
<1>5. ASSUME NEW j \in 1..(l + 1) PROVE T[us[j - 1]][Index(p, j - 1)] = TableEntry(us[j])
  <2>1. CASE j = l + 1
    BY <1>1, <1>3, <1>4, <2>1
  <2>2. CASE j \in 1..l
    BY <1>1, <1>4, <2>2
  <2> QED BY <2>1, <2>2
<1> QED BY <1>3, <1>5 DEF PathTo

\* No path and no mapping is lost.
LEMMA PathKept ==
  ASSUME NEW T, NEW U, Grows(T, U), NEW p \in Nat, NEW l \in 0..(Levels - 1), NEW t,
         PathTo(T, p, l, t)
  PROVE  PathTo(U, p, l, t)
<1>1. PICK ts \in [0..l -> Tables] :
        /\ ts[0] = 0 /\ ts[l] = t
        /\ \A j \in 1..l : T[ts[j - 1]][Index(p, j - 1)] = TableEntry(ts[j])
  BY DEF PathTo
<1>2. ASSUME NEW j \in 1..l PROVE U[ts[j - 1]][Index(p, j - 1)] = TableEntry(ts[j])
  <2>1. j - 1 \in 0..l /\ j - 1 \in 0..(Levels - 1)
    BY DirectConstants
  <2>2. ts[j - 1] \in Tables /\ Index(p, j - 1) \in Indices
    BY <1>1, <2>1, IndexFacts
  <2>3. T[ts[j - 1]][Index(p, j - 1)] # Empty
    BY <1>1, EntryFacts
  <2> QED BY <1>1, <2>2, <2>3 DEF Grows
<1> QED BY <1>1, <1>2 DEF PathTo

LEMMA MappedKept ==
  ASSUME NEW T, NEW U, Grows(T, U), NEW p \in Nat, MappedIn(T, p)
  PROVE  MappedIn(U, p)
<1>1. PICK t \in Tables :
        PathTo(T, p, Levels - 1, t) /\ T[t][Index(p, Levels - 1)] = PageEntry(p)
  BY DEF MappedIn
<1>2. Levels - 1 \in 0..(Levels - 1)
  BY DirectConstants
<1>3. PathTo(U, p, Levels - 1, t)
  BY <1>1, <1>2, PathKept
<1>4. U[t][Index(p, Levels - 1)] = PageEntry(p)
  BY <1>1, <1>2, IndexFacts, EntryFacts DEF Grows
<1> QED BY <1>3, <1>4 DEF MappedIn

----------------------------------------------------------------------------
\* The walk of the hardware, level by level.
LEMMA TranslateSteps ==
  ASSUME tables \in [Tables -> [Indices -> AllEntries]], NEW p \in Nat
  PROVE  \E f \in [0..(Levels - 1) -> AllEntries] :
           /\ f[0] = tables[0][Index(p, 0)] /\ Translate(p) = f[Levels - 1]
           /\ \A l \in 1..(Levels - 1) : f[l] = Follow(f[l - 1], p, l)
<1>0. PICK n \in Nat : n = Levels - 1
  BY DirectConstants
<1>1. \A l \in 0..n : Index(p, l) \in Indices
  BY <1>0, IndexFacts
<1>2. PICK a \in AllEntries : a = tables[0][Index(p, 0)]
  <2>1. 0 \in Tables /\ 0 \in 0..n
    BY DirectConstants DEF Tables
  <2> QED BY <1>1, <2>1
<1>3. \A l \in 0..n, e \in AllEntries : Follow(e, p, l) \in AllEntries
  <2> SUFFICES ASSUME NEW l \in 0..n, NEW e \in AllEntries PROVE Follow(e, p, l) \in AllEntries
    OBVIOUS
  <2>1. Empty \in AllEntries
    BY EntryFacts
  <2> QED BY <1>1, <2>1 DEF Follow
<1>4. PICK F : F = [x \in (1..n) \X AllEntries |-> Follow(x[2], p, x[1])]
  OBVIOUS
<1>5. Leads(F, n, AllEntries)
  <2>1. \A x \in (1..n) \X AllEntries : Follow(x[2], p, x[1]) \in AllEntries
    BY <1>3
  <2> QED BY <1>4, <2>1 DEF Leads
<1>6. PICK f : Follows(f, F, n, AllEntries, a)
  BY <1>5, Recursion
<1>7. f \in [0..n -> AllEntries] /\ f[0] = a
  BY <1>6 DEF Follows
<1>8. ASSUME NEW l \in 1..n PROVE f[l] = Follow(f[l - 1], p, l)
  <2>1. f[l] = F[<<l, f[l - 1]>>]
    BY <1>6 DEF Follows
  <2>2. l - 1 \in 0..n
    OBVIOUS
  <2>3. <<l, f[l - 1]>> \in (1..n) \X AllEntries
    BY <1>7, <2>2
  <2> QED BY <1>4, <2>1, <2>3
<1> DEFINE Rec(g) == g = [l \in 0..(Levels - 1) |->
                           IF l = 0 THEN tables[0][Index(p, 0)] ELSE Follow(g[l - 1], p, l)]
           step == CHOOSE g : Rec(g)
<1>9. Rec(f)
  <2>1. \A l \in 0..n : f[l] = IF l = 0 THEN tables[0][Index(p, 0)] ELSE Follow(f[l - 1], p, l)
    BY <1>2, <1>7, <1>8
  <2> QED BY <1>0, <1>7, <2>1
<1>10. Translate(p) = step[Levels - 1]
  BY DEF Translate
<1>11. Rec(step)
  BY <1>9
<1> HIDE DEF step
<1>12. step[0] = f[0] /\ \A l \in 1..n : step[l] = Follow(step[l - 1], p, l)
  BY <1>0, <1>2, <1>7, <1>11
<1>13. \A l \in 0..n : step[l] = f[l]
  <2> DEFINE S == {l \in 0..n : step[l] = f[l]}
  <2>1. 0 \in S
    BY <1>12
  <2>2. \A l \in 1..n : l - 1 \in S => l \in S
    BY <1>8, <1>12
  <2> HIDE DEF S
  <2>3. 0..n \subseteq S
    BY <2>1, <2>2, Inductive
  <2> QED BY <2>3 DEF S
<1>14. Translate(p) = f[Levels - 1]
  BY <1>0, <1>10, <1>13
<1> QED BY <1>0, <1>2, <1>7, <1>8, <1>14

LEMMA MappedTranslates ==
  ASSUME PoolFits, tables \in [Tables -> [Indices -> AllEntries]], NEW p \in Nat, MappedIn(tables, p)
  PROVE  Translate(p) = PageEntry(p)
<1>0. PICK n \in Nat : n = Levels - 1
  BY DirectConstants
<1>1. PICK f \in [0..n -> AllEntries] :
        /\ f[0] = tables[0][Index(p, 0)] /\ Translate(p) = f[n]
        /\ \A l \in 1..n : f[l] = Follow(f[l - 1], p, l)
  BY <1>0, TranslateSteps
<1>2. PICK t \in Tables : PathTo(tables, p, n, t) /\ tables[t][Index(p, n)] = PageEntry(p)
  BY <1>0 DEF MappedIn
<1>3. PICK ts \in [0..n -> Tables] :
        /\ ts[0] = 0 /\ ts[n] = t
        /\ \A j \in 1..n : tables[ts[j - 1]][Index(p, j - 1)] = TableEntry(ts[j])
  BY <1>2 DEF PathTo
<1> DEFINE S == {l \in 0..n : f[l] = tables[ts[l]][Index(p, l)]}
<1>4. 0 \in S
  BY <1>1, <1>3
<1>5. ASSUME NEW l \in 1..n, l - 1 \in S PROVE l \in S
  <2>1. f[l - 1] = TableEntry(ts[l]) /\ ts[l] \in Tables
    BY <1>3, <1>5
  <2>2. Followed(TableEntry(ts[l])) = ts[l]
    BY <2>1, FollowedBack
  <2>3. f[l] = tables[ts[l]][Index(p, l)]
    BY <1>1, <2>1, <2>2, EntryFacts DEF Follow
  <2> QED BY <2>3
<1> HIDE DEF S
<1>6. 0..n \subseteq S
  BY <1>4, <1>5, Inductive
<1> QED BY <1>1, <1>2, <1>3, <1>6 DEF S

LEMMA TranslatesToItself ==
  ASSUME PoolFits, NEW lv, NEW pre, Labelled(tables, next, lv, pre), NEW p \in Pages, Translate(p) # Empty
  PROVE  Translate(p) = PageEntry(p) /\ \E t \in Tables, i \in Indices : tables[t][i] = PageEntry(p)
<1>0. PICK n \in Nat : n = Levels - 1
  BY DirectConstants
<1>1. p \in Nat /\ Prefix(p, 0) = 0
  BY RootPrefix
<1>2. PICK f \in [0..n -> AllEntries] :
        /\ f[0] = tables[0][Index(p, 0)] /\ Translate(p) = f[n]
        /\ \A l \in 1..n : f[l] = Follow(f[l - 1], p, l)
  BY <1>0, <1>1, TranslateSteps DEF Labelled
<1> DEFINE Good(l) == f[l] = Empty \/ \E t : /\ On(next, lv, pre, t, p, l)
                                            /\ f[l] = tables[t][Index(p, l)]
           S == {l \in 0..n : Good(l)}
<1>3. 0 \in S
  <2>1. On(next, lv, pre, 0, p, 0)
    BY <1>1, DirectConstants DEF On, Labelled, Tables
  <2> QED BY <1>2, <2>1
<1>4. ASSUME NEW l \in 1..n, l - 1 \in S PROVE l \in S
  <2>1. f[l] = Follow(f[l - 1], p, l)
    BY <1>2
  <2>2. CASE f[l - 1] = Empty
    BY <2>1, <2>2, EntryFacts DEF Follow
  <2>3. CASE f[l - 1] # Empty
    <3>1. PICK t : On(next, lv, pre, t, p, l - 1) /\ f[l - 1] = tables[t][Index(p, l - 1)]
      BY <1>4, <2>3
    <3>2. l - 1 < Levels - 1 /\ l - 1 + 1 = l
      BY <1>0
    <3>3. PICK k \in 1..next : tables[t][Index(p, l - 1)] = TableEntry(k)
                                 /\ On(next, lv, pre, k, p, l)
      BY <2>3, <3>1, <3>2, WalkStep
    <3>4. k \in Tables /\ Followed(TableEntry(k)) = k
      BY <3>3, FollowedBack DEF On
    <3>5. f[l] = tables[k][Index(p, l)]
      BY <2>1, <3>1, <3>3, <3>4, EntryFacts DEF Follow
    <3> QED BY <3>3, <3>5
  <2> QED BY <2>2, <2>3
<1> HIDE DEF S
<1>5. 0..n \subseteq S
  BY <1>3, <1>4, Inductive
<1>6. Good(n)
  BY <1>5 DEF S
<1>7. PICK t : On(next, lv, pre, t, p, n) /\ f[n] = tables[t][Index(p, n)]
  BY <1>2, <1>6
<1>8. f[n] = PageEntry(p)
  BY <1>0, <1>2, <1>7, WalkStep
<1>9. t \in Tables /\ Index(p, n) \in Indices
  BY <1>0, <1>1, <1>7, IndexFacts DEF On
<1> QED BY <1>2, <1>7, <1>8, <1>9

----------------------------------------------------------------------------
(***************************************************************************)
(* The inductive invariant of map_mmio_region, over Inv.  A call is in its *)
(* walk at a table of the page it maps; every page before that one is      *)
(* mapped, and stays so because entries are written once; the table that   *)
(* alloc_table is about to hand out is still free, as a guarded kernel     *)
(* makes one call at a time.  Typed holds for every kernel: a walk that is *)
(* led astray by a table in two places still stays inside the tables.      *)
(***************************************************************************)
MapPcs == {"walk", "alloc", "link"}
WalkRecs == [page : Nat, level : 0..(Levels - 1), table : Tables, slot : 0..PoolSize]

MapTypes ==
  /\ arch \in Archs /\ guarded \in BOOLEAN
  /\ now \in 0..MaxNow
  /\ pc \in [Contexts -> PcValues]
  /\ req \in [Contexts -> Requests \cup {NoRequest}]
  /\ walk \in [Contexts -> WalkRecs]
  /\ granted \subseteq Regions

OneMapping ==
  \A c, d \in Contexts :
    /\ pc[c] # "idle" /\ req[c].op = "map_mmio_region"
    /\ pc[d] # "idle" /\ req[d].op = "map_mmio_region"
    => c = d

GrantedIn(T, G) ==
  \A t \in Tables, i \in Indices, p \in Pages :
    T[t][i] = PageEntry(p) => \E r \in G : Touches(p, r)

\* A call for region r, at w of its walk and at pc value s.
WalkAt(T, n, lv, pre, G, r, w, s) ==
  /\ r \in Regions /\ r \in G /\ r.size > 0
  /\ FirstPage(r) <= w.page /\ w.page <= LastPage(r) + 1
  /\ \A q \in Nat : FirstPage(r) <= q /\ q < w.page => MappedIn(T, q)
  /\ w.page <= LastPage(r) => /\ On(n, lv, pre, w.table, w.page, w.level)
                              /\ PathTo(T, w.page, w.level, w.table)
  /\ s \in {"alloc", "link"} => /\ w.page <= LastPage(r) /\ w.level < Levels - 1
                                /\ T[w.table][Index(w.page, w.level)] = Empty
  /\ s = "link" => w.slot = n /\ n < PoolSize

\* What is left of a call that returned Ok.
DoneAt(T, q, v) ==
  v.result = "Ok" /\ q.op = "map_mmio_region" =>
    /\ q.arg \in Regions /\ q.arg.size > 0
    /\ \A p \in Nat : FirstPage(q.arg) <= p /\ p <= LastPage(q.arg) => MappedIn(T, p)
    /\ v.value = FirstPage(q.arg) * PageSize

MapState(lv, pre) ==
  /\ MapTypes /\ OneMapping
  /\ Labelled(tables, next, lv, pre)
  /\ GrantedIn(tables, granted)
  /\ \A c \in Contexts :
       /\ pc[c] \in MapPcs =>
            WalkAt(tables, next, lv, pre, granted, req[c].arg, walk[c], pc[c])
       /\ DoneAt(tables, req[c], ret[c])

\* A call for region r, at w of its walk and at pc value s, in any kernel.
WalkTyped(s, r, w) ==
  /\ s \in MapPcs => r \in Regions /\ r.size > 0
  /\ s \in {"alloc", "link"} => w.level < Levels - 1
  /\ s = "link" => w.slot < PoolSize

Typed ==
  /\ MapTypes /\ TablesTyped(tables) /\ next \in 0..PoolSize
  /\ \A c \in Contexts : WalkTyped(pc[c], req[c].arg, walk[c])

MapInv == Inv /\ Typed /\ (guarded => \E lv, pre : MapState(lv, pre))

\* A step of context c, from labels lv and pre to labels lv2 and pre2: it writes
\* nothing over, another call's walk only sees more regions granted.
LEMMA MapFrame ==
  ASSUME Inv, NEW lv, NEW pre, MapState(lv, pre), NEW lv2, NEW pre2, NEW c \in Contexts,
         MapTypes', OneMapping', granted \subseteq granted',
         Labelled(tables', next', lv2, pre2), Grows(tables, tables'),
         GrantedIn(tables', granted'),
         \A d \in Contexts : d # c =>
           pc'[d] = pc[d] /\ req'[d] = req[d] /\ walk'[d] = walk[d] /\ ret'[d] = ret[d],
         \/ tables' = tables /\ next' = next /\ lv2 = lv /\ pre2 = pre
         \/ pc[c] \in MapPcs,
         pc'[c] \in MapPcs =>
           WalkAt(tables', next', lv2, pre2, granted', req'[c].arg, walk'[c], pc'[c]),
         DoneAt(tables', req'[c], ret'[c])
  PROVE  MapState(lv2, pre2)'
<1>1. ASSUME NEW d \in Contexts, d # c PROVE DoneAt(tables', req'[d], ret'[d])
  <2>1. DoneAt(tables, req[d], ret[d])
    BY DEF MapState
  <2>2. req'[d] = req[d] /\ ret'[d] = ret[d]
    BY <1>1
  <2> QED BY <2>1, <2>2, MappedKept DEF DoneAt
<1>2. ASSUME NEW d \in Contexts, d # c, pc[d] \in MapPcs
      PROVE  WalkAt(tables', next', lv2, pre2, granted', req'[d].arg, walk'[d], pc'[d])
  <2>1. pc[c] \notin MapPcs
    BY <1>2 DEF MapPcs, Inv, CallOfPc, MapState, OneMapping
  <2>2. tables' = tables /\ next' = next /\ lv2 = lv /\ pre2 = pre
    BY <2>1
  <2>3. req'[d] = req[d] /\ walk'[d] = walk[d] /\ pc'[d] = pc[d]
    BY <1>2
  <2>4. WalkAt(tables, next, lv, pre, granted, req[d].arg, walk[d], pc[d])
    BY <1>2 DEF MapState
  <2>5. WalkAt(tables, next, lv, pre, granted', req[d].arg, walk[d], pc[d])
    BY <2>4 DEF WalkAt
  <2> QED BY <2>2, <2>3, <2>5
<1>3. ASSUME NEW d \in Contexts
      PROVE  /\ pc'[d] \in MapPcs =>
                  WalkAt(tables', next', lv2, pre2, granted', req'[d].arg, walk'[d], pc'[d])
             /\ DoneAt(tables', req'[d], ret'[d])
  BY <1>1, <1>2
<1> QED BY <1>3 DEF MapState

\* A step that leaves the tables alone.
LEMMA MapQuiet ==
  ASSUME Inv, NEW lv, NEW pre, MapState(lv, pre), NEW c \in Contexts,
         UNCHANGED <<tables, next>>, granted \subseteq granted', MapTypes', OneMapping',
         \A d \in Contexts : d # c =>
           pc'[d] = pc[d] /\ req'[d] = req[d] /\ walk'[d] = walk[d] /\ ret'[d] = ret[d],
         pc'[c] \in MapPcs =>
           WalkAt(tables, next, lv, pre, granted', req'[c].arg, walk'[c], pc'[c]),
         DoneAt(tables, req'[c], ret'[c])
  PROVE  MapState(lv, pre)'
<1>1. Grows(tables, tables') /\ Labelled(tables', next', lv, pre)
  BY DEF Grows, MapState
<1>2. GrantedIn(tables', granted')
  BY DEF MapState, GrantedIn
<1>3. /\ pc'[c] \in MapPcs =>
           WalkAt(tables', next', lv, pre, granted', req'[c].arg, walk'[c], pc'[c])
      /\ DoneAt(tables', req'[c], ret'[c])
  OBVIOUS
<1> QED BY <1>1, <1>2, <1>3, MapFrame

LEMMA NoWalkTyped == NoWalk \in WalkRecs
BY DirectConstants DEF NoWalk, WalkRecs, Tables

LEMMA FailMap ==
  ASSUME Inv, NEW lv, NEW pre, MapState(lv, pre), NEW c \in Contexts, Fail(c),
         UNCHANGED <<arch, guarded, now, machine>>,
         granted \subseteq granted', granted' \subseteq Regions
  PROVE  MapState(lv, pre)'
<1>1. MapTypes /\ OneMapping
  BY DEF MapState
<1>2. MapTypes'
  BY <1>1, NoWalkTyped DEF MapTypes, Fail, PcValues
<1>3. pc'[c] = "idle" /\ ret'[c] = Err
  BY <1>1 DEF MapTypes, Fail, Inv, Shapes
<1>4. \A d \in Contexts : d # c =>
        pc'[d] = pc[d] /\ req'[d] = req[d] /\ walk'[d] = walk[d] /\ ret'[d] = ret[d]
  BY <1>1 DEF MapTypes, Fail, Inv, Shapes
<1>5. OneMapping'
  BY <1>1, <1>3, <1>4 DEF OneMapping
<1>6. DoneAt(tables, req'[c], ret'[c]) /\ pc'[c] \notin MapPcs
  BY <1>3 DEF DoneAt, Err, MapPcs
<1> QED BY <1>2, <1>4, <1>5, <1>6, MapQuiet DEF machine

LEMMA SucceedMap ==
  ASSUME Inv, NEW lv, NEW pre, MapState(lv, pre), NEW c \in Contexts, NEW v, Succeed(c, v),
         UNCHANGED <<arch, guarded, now, machine, granted>>,
         DoneAt(tables, req[c], Ok(v))
  PROVE  MapState(lv, pre)'
<1>1. MapTypes /\ OneMapping
  BY DEF MapState
<1>2. MapTypes'
  BY <1>1, NoWalkTyped DEF MapTypes, Succeed, PcValues
<1>3. pc'[c] = "idle" /\ ret'[c] = Ok(v) /\ req'[c] = req[c]
  BY <1>1 DEF MapTypes, Succeed, Inv, Shapes
<1>4. \A d \in Contexts : d # c =>
        pc'[d] = pc[d] /\ req'[d] = req[d] /\ walk'[d] = walk[d] /\ ret'[d] = ret[d]
  BY <1>1 DEF MapTypes, Succeed, Inv, Shapes
<1>5. OneMapping'
  BY <1>1, <1>3, <1>4 DEF OneMapping
<1>6. DoneAt(tables, req'[c], ret'[c]) /\ pc'[c] \notin MapPcs
  BY <1>3 DEF MapPcs
<1> QED BY <1>2, <1>4, <1>5, <1>6, MapQuiet DEF machine

\* A step inside a call that leaves the tables alone.
LEMMA MoveMap ==
  ASSUME Inv, NEW lv, NEW pre, MapState(lv, pre), NEW c \in Contexts, pc[c] # "idle",
         NEW s \in PcValues, pc' = [pc EXCEPT ![c] = s],
         NEW w \in WalkRecs, walk' = [walk EXCEPT ![c] = w],
         UNCHANGED <<arch, guarded, now, tables, next, req, ret>>,
         granted \subseteq granted', granted' \subseteq Regions,
         s \in MapPcs => WalkAt(tables, next, lv, pre, granted', req[c].arg, w, s)
  PROVE  MapState(lv, pre)'
<1>1. MapTypes /\ OneMapping
  BY DEF MapState
<1>2. MapTypes'
  BY <1>1 DEF MapTypes
<1>3. pc'[c] = s /\ walk'[c] = w
  BY <1>1 DEF MapTypes
<1>4. \A d \in Contexts : d # c =>
        pc'[d] = pc[d] /\ req'[d] = req[d] /\ walk'[d] = walk[d] /\ ret'[d] = ret[d]
  BY <1>1 DEF MapTypes
<1>5. OneMapping'
  BY <1>1, <1>3, <1>4 DEF OneMapping
<1>6. DoneAt(tables, req'[c], ret'[c])
  BY DEF MapState
<1> QED BY <1>2, <1>3, <1>4, <1>5, <1>6, MapQuiet

LEMMA CallMap ==
  ASSUME Inv, NEW lv, NEW pre, MapState(lv, pre), NEW c \in Contexts, NEW r \in Requests,
         Call(c, r), guarded
  PROVE  MapState(lv, pre)'
<1>1. MapTypes /\ OneMapping
  BY DEF MapState
<1>2. MapTypes'
  BY <1>1 DEF MapTypes, Call, PcValues
<1>3. pc'[c] = "called" /\ ret'[c] = NotCalled /\ req'[c] = r
  BY <1>1 DEF MapTypes, Call, Inv, Shapes
<1>4. \A d \in Contexts : d # c =>
        pc'[d] = pc[d] /\ req'[d] = req[d] /\ walk'[d] = walk[d] /\ ret'[d] = ret[d]
  BY <1>1 DEF MapTypes, Call, Inv, Shapes
<1>5. OneMapping'
  <2>1. \A d \in Contexts : pc[d] = "idle"
    BY DEF Call, Busy
  <2> QED BY <1>4, <2>1 DEF OneMapping
<1>6. DoneAt(tables, req'[c], ret'[c]) /\ pc'[c] \notin MapPcs
  BY <1>3 DEF DoneAt, NotCalled, MapPcs
<1>7. UNCHANGED <<tables, next, granted>>
  BY DEF Call, machine
<1> QED BY <1>2, <1>4, <1>5, <1>6, <1>7, MapQuiet

\* The argument of a call under way.
LEMMA MapArgument ==
  ASSUME Inv, NEW c \in Contexts, pc[c] # "idle", req[c].op = "map_mmio_region"
  PROVE  req[c].arg \in Regions
<1>1. req[c] \in Requests
  BY DEF Inv, Admitted, Served
<1> QED BY <1>1, HalDirectAssumption

\* The first page of a walk: the root is a table of every page.
LEMMA WalkStarts ==
  ASSUME RegionsFit, NEW T, NEW n, NEW lv, NEW pre, Labelled(T, n, lv, pre),
         NEW G, NEW r \in Regions, r \in G, r.size > 0, NEW p \in Nat,
         FirstPage(r) <= p, p <= LastPage(r) + 1,
         \A q \in Nat : FirstPage(r) <= q /\ q < p => MappedIn(T, q),
         NEW w, w = [NoWalk EXCEPT !.page = p]
  PROVE  w \in WalkRecs /\ WalkAt(T, n, lv, pre, G, r, w, "walk")
<1>1. w.page = p /\ w.level = 0 /\ w.table = 0 /\ w.slot = 0
  BY DEF NoWalk
<1>2. w \in WalkRecs
  BY NoWalkTyped DEF WalkRecs, NoWalk
<1>3. ASSUME p <= LastPage(r) PROVE On(n, lv, pre, 0, p, 0)
  <2>1. LastPage(r) \in Pages
    BY DEF RegionsFit
  <2>2. p \in Pages
    BY <1>3, <2>1, StrideFacts DEF Pages
  <2>3. Prefix(p, 0) = 0
    BY <2>2, RootPrefix
  <2> QED BY <2>3, DirectConstants DEF On, Labelled, Tables
<1>4. PathTo(T, p, 0, 0)
  BY PathStarts
<1> QED BY <1>1, <1>2, <1>3, <1>4 DEF WalkAt

LEMMA MapCallMap ==
  ASSUME RegionsFit, Inv, NEW lv, NEW pre, MapState(lv, pre), NEW c \in Contexts,
         map_mmio_region(c)
  PROVE  MapState(lv, pre)'
<1>1. pc[c] = "verified" /\ req[c].op = "map_mmio_region" /\ granted' = granted \cup {req[c].arg}
  BY DEF map_mmio_region
<1>2. req[c].arg \in Regions
  BY <1>1, MapArgument
<1>3. granted' \subseteq Regions
  BY <1>1, <1>2 DEF MapState, MapTypes
<1>4. UNCHANGED <<arch, guarded, now, machine>>
  BY DEF map_mmio_region
<1>5. CASE req[c].arg.size = 0
  <2>1. Fail(c)
    BY <1>5 DEF map_mmio_region
  <2> QED BY <1>1, <1>3, <1>4, <2>1, FailMap
<1>6. CASE req[c].arg.size # 0
  <2>1. PICK r \in Regions : r = req[c].arg
    BY <1>2
  <2>2. r.size > 0 /\ r \in granted'
    BY <1>1, <1>6, <2>1, DirectConstants
  <2>3. PICK p \in Nat : p = FirstPage(r) /\ p <= LastPage(r) + 1
    BY <2>2, RegionPages
  <2>4. PICK w : w = [NoWalk EXCEPT !.page = p]
    OBVIOUS
  <2>5. w \in WalkRecs /\ WalkAt(tables, next, lv, pre, granted', r, w, "walk")
    <3>1. \A q \in Nat : FirstPage(r) <= q /\ q < p => MappedIn(tables, q)
      BY <2>3
    <3>2. Labelled(tables, next, lv, pre)
      BY DEF MapState
    <3> QED BY <2>2, <2>3, <2>4, <3>1, <3>2, WalkStarts
  <2>6. pc' = [pc EXCEPT ![c] = "walk"] /\ walk' = [walk EXCEPT ![c] = w]
          /\ UNCHANGED <<req, ret>>
    BY <1>6, <2>1, <2>3, <2>4 DEF map_mmio_region
  <2> QED BY <1>1, <1>3, <1>4, <2>1, <2>5, <2>6, MoveMap DEF machine, PcValues
<1> QED BY <1>5, <1>6

\* What the invariant says of a call in its walk.
LEMMA WalkFacts ==
  ASSUME RegionsFit, Inv, NEW lv, NEW pre, MapState(lv, pre), NEW c \in Contexts,
         pc[c] \in MapPcs
  PROVE  /\ req[c].op = "map_mmio_region" /\ pc[c] # "idle"
         /\ walk[c] \in WalkRecs
         /\ WalkAt(tables, next, lv, pre, granted, req[c].arg, walk[c], pc[c])
         /\ req[c].arg \in Regions /\ Labelled(tables, next, lv, pre)
         /\ FirstPage(req[c].arg) \in Nat /\ LastPage(req[c].arg) \in Nat
         /\ LastPage(req[c].arg) \in Pages /\ granted \subseteq Regions
<1>1. req[c].op = "map_mmio_region" /\ pc[c] # "idle"
  BY DEF Inv, CallOfPc, MapPcs
<1>2. WalkAt(tables, next, lv, pre, granted, req[c].arg, walk[c], pc[c])
  BY DEF MapState
<1>3. req[c].arg \in Regions /\ req[c].arg.size > 0
  BY <1>2 DEF WalkAt
<1>4. FirstPage(req[c].arg) \in Nat /\ LastPage(req[c].arg) \in Pages
  BY <1>3, RegionPages DEF RegionsFit
<1>5. LastPage(req[c].arg) \in Nat
  BY <1>4, RootPrefix
<1> QED BY <1>1, <1>2, <1>3, <1>4, <1>5 DEF MapState, MapTypes

LEMMA DescendMap ==
  ASSUME RegionsFit, PoolFits, Inv, NEW lv, NEW pre, MapState(lv, pre), NEW c \in Contexts,
         Descend(c)
  PROVE  MapState(lv, pre)'
<1>1. /\ pc[c] = "walk" /\ walk[c].page <= LastPage(req[c].arg) /\ walk[c].level < Levels - 1
      /\ pc[c] \in MapPcs
  BY DEF Descend, Walking, MapPcs
<1>2. PICK w \in WalkRecs, r \in Regions : w = walk[c] /\ r = req[c].arg
  BY <1>1, WalkFacts
<1>3. /\ WalkAt(tables, next, lv, pre, granted, r, w, "walk") /\ Labelled(tables, next, lv, pre)
      /\ granted \subseteq Regions
  BY <1>1, <1>2, WalkFacts
<1>4. w.page \in Nat /\ w.level \in 0..(Levels - 1) /\ w.table \in Tables /\ w.slot \in 0..PoolSize
  BY DEF WalkRecs
<1>5. UNCHANGED <<arch, guarded, now, tables, next, req, ret, granted>>
  BY DEF Descend, machine
<1>6. PICK e : e = tables[w.table][Index(w.page, w.level)]
  OBVIOUS
<1>7. Here(c) = e
  BY <1>2, <1>6 DEF Here
<1>8. CASE e = Empty
  <2>1. pc' = [pc EXCEPT ![c] = "alloc"] /\ walk' = walk
    BY <1>7, <1>8 DEF Descend
  <2>2. walk' = [walk EXCEPT ![c] = w]
    BY <1>2, <2>1 DEF MapState, MapTypes
  <2>3. WalkAt(tables, next, lv, pre, granted, r, w, "alloc")
    BY <1>1, <1>2, <1>3, <1>6, <1>8 DEF WalkAt
  <2> QED BY <1>1, <1>2, <1>3, <1>5, <2>1, <2>2, <2>3, MoveMap DEF PcValues
<1>9. CASE e # Empty
  <2>1. On(next, lv, pre, w.table, w.page, w.level) /\ PathTo(tables, w.page, w.level, w.table)
    BY <1>1, <1>2, <1>3 DEF WalkAt
  <2>2. PICK k \in 1..next : e = TableEntry(k) /\ On(next, lv, pre, k, w.page, w.level + 1)
    BY <1>1, <1>2, <1>3, <1>6, <1>9, <2>1, WalkStep
  <2>3. k \in Tables /\ w.level + 1 \in 0..(Levels - 1)
    BY <2>2 DEF On
  <2>4. PathTo(tables, w.page, w.level + 1, k)
    <3>1. PICK p \in Nat, t \in Tables, l \in Nat : p = w.page /\ t = w.table /\ l = w.level
      BY <1>4
    <3>2. PathTo(tables, p, l, t) /\ tables[t][Index(p, l)] = TableEntry(k)
      BY <1>6, <2>1, <2>2, <3>1
    <3>3. PathTo(tables, p, l + 1, k)
      BY <2>3, <3>2, PathExtends
    <3> QED BY <3>1, <3>3
  <2>5. PICK v : v = [w EXCEPT !.level = w.level + 1, !.table = k]
    OBVIOUS
  <2>6. v.page = w.page /\ v.level = w.level + 1 /\ v.table = k /\ v.slot = w.slot
    BY <2>5 DEF WalkRecs
  <2>7. v \in WalkRecs
    BY <2>3, <2>5 DEF WalkRecs
  <2>8. walk' = [walk EXCEPT ![c] = v] /\ pc' = [pc EXCEPT ![c] = "walk"]
    <3>1. GoDown(c, TableEntry(k))
      BY <1>7, <1>9, <2>2 DEF Descend
    <3>2. Followed(TableEntry(k)) = k
      BY <2>3, FollowedBack
    <3>3. walk' = [walk EXCEPT ![c].level = @ + 1, ![c].table = k]
            /\ pc' = [pc EXCEPT ![c] = "walk"]
      BY <2>3, <3>1, <3>2 DEF GoDown
    <3> QED BY <1>2, <2>5, <3>3 DEF MapState, MapTypes
  <2>10. WalkAt(tables, next, lv, pre, granted, r, v, "walk")
    BY <1>3, <2>2, <2>4, <2>6 DEF WalkAt
  <2> QED BY <1>1, <1>2, <1>3, <1>5, <2>7, <2>8, <2>10, MoveMap DEF PcValues
<1> QED BY <1>8, <1>9

LEMMA AllocMap ==
  ASSUME RegionsFit, Inv, NEW lv, NEW pre, MapState(lv, pre), NEW c \in Contexts, alloc_table(c)
  PROVE  MapState(lv, pre)'
<1>1. pc[c] = "alloc" /\ pc[c] \in MapPcs
  BY DEF alloc_table, MapPcs
<1>2. PICK w \in WalkRecs, r \in Regions : w = walk[c] /\ r = req[c].arg
  BY <1>1, WalkFacts
<1>3. /\ WalkAt(tables, next, lv, pre, granted, r, w, "alloc") /\ Labelled(tables, next, lv, pre)
      /\ granted \subseteq Regions
  BY <1>1, <1>2, WalkFacts
<1>4. next \in 0..PoolSize /\ PoolSize \in Nat
  BY <1>3, DirectConstants DEF Labelled
<1>5. UNCHANGED <<arch, guarded, now, machine, granted>>
  BY DEF alloc_table
<1>6. CASE next >= PoolSize
  <2>1. Fail(c)
    BY <1>6 DEF alloc_table
  <2> QED BY <1>3, <1>5, <2>1, FailMap
<1>7. CASE ~(next >= PoolSize)
  <2>1. PICK v : v = [w EXCEPT !.slot = next]
    OBVIOUS
  <2>2. v.page = w.page /\ v.level = w.level /\ v.table = w.table /\ v.slot = next
    BY <2>1 DEF WalkRecs
  <2>3. v \in WalkRecs
    BY <1>4, <2>1 DEF WalkRecs
  <2>4. /\ walk' = [walk EXCEPT ![c] = v] /\ pc' = [pc EXCEPT ![c] = "link"]
        /\ UNCHANGED <<req, ret>>
    BY <1>2, <1>7, <2>1 DEF alloc_table, MapState, MapTypes
  <2>5. WalkAt(tables, next, lv, pre, granted, r, v, "link")
    BY <1>3, <1>4, <1>7, <2>2 DEF WalkAt
  <2> QED BY <1>1, <1>2, <1>3, <1>5, <2>3, <2>4, <2>5, MoveMap DEF PcValues, machine
<1> QED BY <1>6, <1>7

\* A step that writes a table entry: pc, walk and the tables change.
LEMMA WriteMap ==
  ASSUME RegionsFit, Inv, NEW lv, NEW pre, MapState(lv, pre), NEW c \in Contexts,
         pc[c] \in MapPcs, pc' = [pc EXCEPT ![c] = "walk"],
         NEW w \in WalkRecs, walk' = [walk EXCEPT ![c] = w],
         UNCHANGED <<arch, guarded, now, req, ret, granted>>,
         NEW lv2, NEW pre2, Labelled(tables', next', lv2, pre2), Grows(tables, tables'),
         GrantedIn(tables', granted),
         WalkAt(tables', next', lv2, pre2, granted, req[c].arg, w, "walk")
  PROVE  MapState(lv2, pre2)'
<1>1. MapTypes /\ OneMapping
  BY DEF MapState
<1>2. MapTypes'
  BY <1>1 DEF MapTypes, PcValues
<1>3. pc'[c] = "walk" /\ walk'[c] = w /\ pc[c] # "idle"
  BY <1>1 DEF MapTypes, MapPcs
<1>4. \A d \in Contexts : d # c =>
        pc'[d] = pc[d] /\ req'[d] = req[d] /\ walk'[d] = walk[d] /\ ret'[d] = ret[d]
  BY <1>1 DEF MapTypes
<1>5. OneMapping'
  BY <1>1, <1>3, <1>4 DEF OneMapping
<1>6. DoneAt(tables', req'[c], ret'[c])
  <2>1. DoneAt(tables, req[c], ret[c])
    BY DEF MapState
  <2> QED BY <2>1, MappedKept DEF DoneAt
<1>7. /\ WalkAt(tables', next', lv2, pre2, granted', req'[c].arg, walk'[c], pc'[c])
      /\ GrantedIn(tables', granted') /\ granted \subseteq granted'
  BY <1>3
<1> QED BY <1>2, <1>4, <1>5, <1>6, <1>7, MapFrame

LEMMA LinkMap ==
  ASSUME RegionsFit, PoolFits, Inv, NEW lv, NEW pre, MapState(lv, pre), NEW c \in Contexts,
         link_table(c)
  PROVE  \E lv2, pre2 : MapState(lv2, pre2)'
<1>1. pc[c] = "link" /\ pc[c] \in MapPcs
  BY DEF link_table, MapPcs
<1>2. PICK w \in WalkRecs, r \in Regions : w = walk[c] /\ r = req[c].arg
  BY <1>1, WalkFacts
<1>3. /\ WalkAt(tables, next, lv, pre, granted, r, w, "link") /\ Labelled(tables, next, lv, pre)
      /\ FirstPage(r) \in Nat /\ LastPage(r) \in Nat
  BY <1>1, <1>2, WalkFacts
<1>4. w.page \in Nat /\ w.level \in 0..(Levels - 1) /\ w.table \in Tables
  BY DEF WalkRecs
<1>5. PICK p \in Nat, l \in 0..(Levels - 1), t \in Tables : p = w.page /\ l = w.level /\ t = w.table
  BY <1>4
<1>6. /\ p <= LastPage(r) /\ l < Levels - 1 /\ tables[t][Index(p, l)] = Empty
      /\ w.slot = next /\ next < PoolSize
      /\ On(next, lv, pre, t, p, l) /\ PathTo(tables, p, l, t)
  BY <1>3, <1>5 DEF WalkAt
<1>7. /\ next' = next + 1
      /\ Written(tables', tables, t, Index(p, l), TableEntry(next + 1))
      /\ GoDown(c, TableEntry(next + 1))
      /\ UNCHANGED <<arch, guarded, now, req, ret, granted>>
  BY <1>2, <1>5, <1>6 DEF link_table, Written
<1>8. PICK lv2, pre2 : lv2 = Relabelled(lv, next + 1, l + 1)
                         /\ pre2 = Relabelled(pre, next + 1, Prefix(p, l + 1))
  OBVIOUS
<1>9. /\ Labelled(tables', next', lv2, pre2) /\ Grows(tables, tables')
      /\ On(next', lv2, pre2, next + 1, p, l + 1)
      /\ tables'[t][Index(p, l)] = TableEntry(next + 1)
      /\ \A s \in Tables, i \in Indices : tables'[s][i] # tables[s][i] =>
                                            tables'[s][i] = TableEntry(next + 1)
  BY <1>3, <1>6, <1>7, <1>8, LinkLabelled
<1>10. next + 1 \in Tables /\ l + 1 \in 0..(Levels - 1)
  BY <1>9 DEF On
<1>11. PathTo(tables', p, l + 1, next + 1)
  <2>1. PathTo(tables', p, l, t)
    BY <1>6, <1>9, PathKept
  <2> QED BY <1>9, <1>10, <2>1, PathExtends
<1>12. PICK v : v = [w EXCEPT !.level = l + 1, !.table = next + 1]
  OBVIOUS
<1>13. v.page = p /\ v.level = l + 1 /\ v.table = next + 1
  BY <1>5, <1>12 DEF WalkRecs
<1>14. v \in WalkRecs
  BY <1>10, <1>12 DEF WalkRecs
<1>15. walk' = [walk EXCEPT ![c] = v] /\ pc' = [pc EXCEPT ![c] = "walk"]
  <2>1. Followed(TableEntry(next + 1)) = next + 1
    BY <1>10, FollowedBack
  <2>2. walk' = [walk EXCEPT ![c].level = @ + 1, ![c].table = next + 1]
          /\ pc' = [pc EXCEPT ![c] = "walk"]
    BY <1>7, <1>10, <2>1 DEF GoDown
  <2> QED BY <1>2, <1>5, <1>12, <2>2 DEF MapState, MapTypes
<1>16. GrantedIn(tables', granted)
  BY <1>9, EntryFacts DEF MapState, GrantedIn
<1>17. WalkAt(tables', next', lv2, pre2, granted, r, v, "walk")
  <2>1. \A q \in Nat : FirstPage(r) <= q /\ q < p => MappedIn(tables', q)
    BY <1>3, <1>5, <1>9, MappedKept DEF WalkAt
  <2>2. r \in Regions /\ r \in granted /\ r.size > 0 /\ FirstPage(r) <= p /\ p <= LastPage(r) + 1
    BY <1>3, <1>5 DEF WalkAt
  <2> QED BY <1>9, <1>11, <1>13, <2>1, <2>2 DEF WalkAt
<1>18. MapState(lv2, pre2)'
  BY <1>1, <1>2, <1>7, <1>9, <1>14, <1>15, <1>16, <1>17, WriteMap
<1> QED BY <1>18

LEMMA PageMap ==
  ASSUME RegionsFit, Inv, NEW lv, NEW pre, MapState(lv, pre), NEW c \in Contexts, map_page(c)
  PROVE  MapState(lv, pre)'
<1>1. /\ pc[c] = "walk" /\ pc[c] \in MapPcs
      /\ walk[c].page <= LastPage(req[c].arg) /\ walk[c].level = Levels - 1
  BY DEF map_page, Walking, MapPcs
<1>2. PICK w \in WalkRecs, r \in Regions : w = walk[c] /\ r = req[c].arg
  BY <1>1, WalkFacts
<1>3. /\ WalkAt(tables, next, lv, pre, granted, r, w, "walk") /\ Labelled(tables, next, lv, pre)
      /\ FirstPage(r) \in Nat /\ LastPage(r) \in Nat /\ LastPage(r) \in Pages
  BY <1>1, <1>2, WalkFacts
<1>4. w.page \in Nat /\ w.level \in 0..(Levels - 1) /\ w.table \in Tables
  BY DEF WalkRecs
<1>5. PICK p \in Nat, l \in 0..(Levels - 1), t \in Tables : p = w.page /\ l = w.level /\ t = w.table
  BY <1>4
<1>6. /\ FirstPage(r) <= p /\ p <= LastPage(r) /\ l = Levels - 1 /\ r \in granted /\ r.size > 0
      /\ On(next, lv, pre, t, p, l) /\ PathTo(tables, p, l, t)
  BY <1>1, <1>2, <1>3, <1>5 DEF WalkAt
<1>7. p \in Pages
  BY <1>3, <1>6, StrideFacts DEF Pages
<1>8. /\ next' = next
      /\ Written(tables', tables, t, Index(p, l), PageEntry(p))
      /\ walk' = [walk EXCEPT ![c] = [NoWalk EXCEPT !.page = p + 1]]
      /\ UNCHANGED <<arch, guarded, now, pc, req, ret, granted>>
  BY <1>2, <1>5 DEF map_page, Written
<1>9. pc' = [pc EXCEPT ![c] = "walk"]
  BY <1>1, <1>8 DEF MapState, MapTypes
<1>10. /\ Labelled(tables', next', lv, pre) /\ Grows(tables, tables')
       /\ tables'[t][Index(p, l)] = PageEntry(p)
       /\ \A s \in Tables, i \in Indices : tables'[s][i] # tables[s][i] =>
                                             tables'[s][i] = PageEntry(p)
  BY <1>3, <1>6, <1>7, <1>8, LeafLabelled
<1>11. GrantedIn(tables', granted)
  <2>1. Touches(p, r)
    BY <1>6, RegionPages
  <2> SUFFICES ASSUME NEW s \in Tables, NEW i \in Indices, NEW q \in Pages,
                      tables'[s][i] = PageEntry(q)
               PROVE  \E g \in granted : Touches(q, g)
    BY DEF GrantedIn
  <2>2. CASE tables'[s][i] = tables[s][i]
    BY <2>2 DEF MapState, GrantedIn
  <2>3. CASE tables'[s][i] # tables[s][i]
    <3>1. q = p
      BY <1>7, <1>10, <2>3, PageEntryNames
    <3> QED BY <1>6, <2>1, <3>1
  <2> QED BY <2>2, <2>3
<1>12. MappedIn(tables', p)
  <2>1. PathTo(tables', p, l, t)
    BY <1>6, <1>10, PathKept
  <2> QED BY <1>6, <1>10, <2>1 DEF MappedIn
<1>13. \A q \in Nat : FirstPage(r) <= q /\ q < p + 1 => MappedIn(tables', q)
  <2> SUFFICES ASSUME NEW q \in Nat, FirstPage(r) <= q, q < p + 1 PROVE MappedIn(tables', q)
    OBVIOUS
  <2>1. CASE q = p
    BY <1>12, <2>1
  <2>2. CASE q < p
    <3>1. MappedIn(tables, q)
      BY <1>3, <1>5, <2>2 DEF WalkAt
    <3> QED BY <1>10, <3>1, MappedKept
  <2> QED BY <2>1, <2>2
<1>14. PICK v : v = [NoWalk EXCEPT !.page = p + 1]
  OBVIOUS
<1>15. PICK p2 \in Nat : p2 = p + 1
  OBVIOUS
<1>16. FirstPage(r) <= p2 /\ p2 <= LastPage(r) + 1
  BY <1>3, <1>6, <1>15
<1>17. v \in WalkRecs /\ WalkAt(tables', next', lv, pre, granted, r, v, "walk")
  BY <1>6, <1>10, <1>13, <1>14, <1>15, <1>16, WalkStarts
<1> QED BY <1>1, <1>2, <1>8, <1>9, <1>10, <1>11, <1>14, <1>17, WriteMap

LEMMA MappedMap ==
  ASSUME RegionsFit, Inv, NEW lv, NEW pre, MapState(lv, pre), NEW c \in Contexts, Mapped(c)
  PROVE  MapState(lv, pre)'
<1>1. /\ pc[c] = "walk" /\ pc[c] \in MapPcs /\ walk[c].page > LastPage(req[c].arg)
      /\ Succeed(c, FirstPage(req[c].arg) * PageSize)
      /\ UNCHANGED <<arch, guarded, now, machine, granted>>
  BY DEF Mapped, MapPcs
<1>2. /\ WalkAt(tables, next, lv, pre, granted, req[c].arg, walk[c], pc[c])
      /\ FirstPage(req[c].arg) \in Nat /\ LastPage(req[c].arg) \in Nat
      /\ walk[c] \in WalkRecs
  BY <1>1, WalkFacts
<1>3. walk[c].page \in Nat
  BY <1>2 DEF WalkRecs
<1>4. DoneAt(tables, req[c], Ok(FirstPage(req[c].arg) * PageSize))
  BY <1>1, <1>2, <1>3 DEF DoneAt, Ok, WalkAt
<1> QED BY <1>1, <1>4, SucceedMap

----------------------------------------------------------------------------
LEMMA InitMap == Init => Typed /\ \E lv, pre : MapState(lv, pre)
<1> SUFFICES ASSUME Init PROVE Typed /\ \E lv, pre : MapState(lv, pre)
  OBVIOUS
<1>0. Levels \in Nat \ {0} /\ PoolSize \in Nat /\ 0 \in Tables
  BY DirectConstants DEF Tables
<1>1. PICK lv : lv = [t \in Tables |-> 0]
  OBVIOUS
<1>2. lv \in [Tables -> 0..(Levels - 1)] /\ lv \in [Tables -> Nat] /\ lv[0] = 0
  BY <1>0, <1>1
<1>3. \A t \in Tables, i \in Indices : tables[t][i] = Empty
  BY DEF Init
<1>4. tables \in [Tables -> [Indices -> AllEntries]] /\ next \in 0..PoolSize
  BY <1>0, EntryFacts DEF Init
<1>5. Labelled(tables, next, lv, lv)
  BY <1>2, <1>3, <1>4 DEF Labelled
<1>6. GrantedIn(tables, granted)
  BY <1>3, EntryFacts DEF GrantedIn
<1>7. MapTypes
  <2>1. guarded \in BOOLEAN /\ now \in 0..MaxNow
    BY HalDirectAssumption DEF Init
  <2> QED BY <2>1, NoWalkTyped DEF Init, MapTypes, PcValues
<1>8. OneMapping
  BY DEF Init, OneMapping
<1>9. \A c \in Contexts : pc[c] \notin MapPcs /\ DoneAt(tables, req[c], ret[c])
  BY DEF Init, MapPcs, DoneAt, NotCalled
<1>10. MapState(lv, lv)
  BY <1>5, <1>6, <1>7, <1>8, <1>9 DEF MapState
<1>11. Typed
  BY <1>4, <1>7, <1>9 DEF Typed, TablesTyped, WalkTyped, MapPcs
<1> QED BY <1>10, <1>11

LEMMA StepMap ==
  ASSUME RegionsFit, PoolFits, Inv, NEW lv, NEW pre, MapState(lv, pre), NEW c \in Contexts,
         Step(c)
  PROVE  \E lv2, pre2 : MapState(lv2, pre2)'
<1>0. granted \subseteq Regions /\ walk \in [Contexts -> WalkRecs]
  BY DEF MapState, MapTypes
<1>a. \A v : req[c].op # "map_mmio_region" => DoneAt(tables, req[c], Ok(v))
  BY DEF DoneAt
<1>b. CASE Begin(c)
  <2>1. walk' = [walk EXCEPT ![c] = walk[c]] /\ walk[c] \in WalkRecs
    BY <1>0, <1>b DEF Begin
  <2> QED BY <1>0, <1>b, <2>1, MoveMap DEF Begin, machine, PcValues, MapPcs
<1>c. CASE Refuse(c)
  BY <1>0, <1>c, FailMap DEF Refuse
<1>1. CASE Gate(c)
  BY <1>1, <1>a, SucceedMap DEF Gate
<1>2. CASE read_performance_counter_x86_64(c)
  BY <1>2, <1>a, SucceedMap DEF read_performance_counter_x86_64, Reading
<1>3. CASE read_performance_counter_riscv64(c)
  <2>1. CASE req[c].arg \in {0, 2}
    BY <1>3, <1>a, <2>1, SucceedMap DEF read_performance_counter_riscv64, Reading
  <2>2. CASE req[c].arg \notin {0, 2}
    BY <1>0, <1>3, <2>2, FailMap DEF read_performance_counter_riscv64
  <2> QED BY <2>1, <2>2
<1>4. CASE select_counter_arm64(c)
  <2>1. walk' = [walk EXCEPT ![c] = walk[c]] /\ walk[c] \in WalkRecs
    BY <1>0, <1>4 DEF select_counter_arm64
  <2> QED BY <1>0, <1>4, <2>1, MoveMap DEF select_counter_arm64, Reading, PcValues, MapPcs
<1>5. CASE read_selected_arm64(c)
  <2>1. req[c].op = "read_performance_counter"
    BY <1>5 DEF read_selected_arm64, Inv, CallOfPc
  <2> QED BY <1>5, <1>a, <2>1, SucceedMap DEF read_selected_arm64
<1>6. CASE map_mmio_region(c)
  BY <1>6, MapCallMap
<1>7. CASE Descend(c)
  BY <1>7, DescendMap
<1>8. CASE alloc_table(c)
  BY <1>8, AllocMap
<1>9. CASE link_table(c)
  BY <1>9, LinkMap
<1>10. CASE map_page(c)
  BY <1>10, PageMap
<1>11. CASE Mapped(c)
  BY <1>11, MappedMap
<1> QED
  BY <1>b, <1>c, <1>1, <1>2, <1>3, <1>4, <1>5, <1>6, <1>7, <1>8, <1>9, <1>10, <1>11 DEF Step

----------------------------------------------------------------------------
(***************************************************************************)
(* Typed, for every kernel.                                                *)
(***************************************************************************)
LEMMA TypedStep ==
  ASSUME Typed, NEW c \in Contexts,
         NEW s \in PcValues, pc' = [pc EXCEPT ![c] = s],
         NEW w \in WalkRecs, walk' = [walk EXCEPT ![c] = w],
         NEW q \in Requests \cup {NoRequest}, req' = [req EXCEPT ![c] = q],
         UNCHANGED <<arch, guarded, now>>, granted' \subseteq Regions,
         TablesTyped(tables'), next' \in 0..PoolSize, WalkTyped(s, q.arg, w)
  PROVE  Typed'
<1>1. MapTypes'
  BY DEF Typed, MapTypes
<1>2. ASSUME NEW d \in Contexts PROVE WalkTyped(pc'[d], req'[d].arg, walk'[d])
  <2>1. CASE d = c
    BY <2>1 DEF Typed, MapTypes
  <2>2. CASE d # c
    BY <2>2 DEF Typed, MapTypes
  <2> QED BY <2>1, <2>2
<1> QED BY <1>1, <1>2 DEF Typed

LEMMA FailTyped ==
  ASSUME Typed, NEW c \in Contexts, Fail(c), UNCHANGED <<arch, guarded, now, machine>>,
         granted' \subseteq Regions
  PROVE  Typed'
<1>1. WalkTyped("idle", NoRequest.arg, NoWalk)
  BY DEF WalkTyped, MapPcs
<1>2. TablesTyped(tables') /\ next' \in 0..PoolSize
  BY DEF Typed, machine
<1> QED BY <1>1, <1>2, NoWalkTyped, TypedStep DEF Fail, PcValues

LEMMA SucceedTyped ==
  ASSUME Typed, NEW c \in Contexts, NEW v, Succeed(c, v),
         UNCHANGED <<arch, guarded, now, machine, granted>>
  PROVE  Typed'
<1>1. WalkTyped("idle", req[c].arg, NoWalk)
  BY DEF WalkTyped, MapPcs
<1>2. TablesTyped(tables') /\ next' \in 0..PoolSize /\ granted' \subseteq Regions
  BY DEF Typed, MapTypes, machine
<1>3. req' = [req EXCEPT ![c] = req[c]] /\ req[c] \in Requests \cup {NoRequest}
  BY DEF Typed, MapTypes, Succeed
<1> QED BY <1>1, <1>2, <1>3, NoWalkTyped, TypedStep DEF Succeed, PcValues

\* A step inside a call that keeps the request.
LEMMA MoveTyped ==
  ASSUME Typed, NEW c \in Contexts,
         NEW s \in PcValues, pc' = [pc EXCEPT ![c] = s],
         NEW w \in WalkRecs, walk' = [walk EXCEPT ![c] = w],
         UNCHANGED <<arch, guarded, now, req>>, granted' \subseteq Regions,
         TablesTyped(tables'), next' \in 0..PoolSize, WalkTyped(s, req[c].arg, w)
  PROVE  Typed'
<1>1. req' = [req EXCEPT ![c] = req[c]] /\ req[c] \in Requests \cup {NoRequest}
  BY DEF Typed, MapTypes
<1> QED BY <1>1, TypedStep

\* The pointer in an entry leads to a table, or the walk stops being one.
LEMMA GoDownTyped ==
  ASSUME Typed, NEW c \in Contexts, NEW e, GoDown(c, e), pc[c] \in MapPcs,
         walk[c].level < Levels - 1,
         UNCHANGED <<arch, guarded, now, req, granted>>,
         TablesTyped(tables'), next' \in 0..PoolSize
  PROVE  Typed'
<1>0. Levels \in Nat \ {0} /\ granted' \subseteq Regions /\ walk \in [Contexts -> WalkRecs]
  BY DirectConstants DEF Typed, MapTypes
<1>1. PICK v \in WalkRecs : v = walk[c]
  BY <1>0
<1>2. WalkTyped("walk", req[c].arg, v) /\ \A w : WalkTyped("wild", req[c].arg, w)
  BY DEF Typed, WalkTyped, MapPcs
<1>3. CASE Followed(e) \in Tables
  <2>1. PICK w : w = [v EXCEPT !.level = v.level + 1, !.table = Followed(e)]
    OBVIOUS
  <2>2. v.level \in 0..(Levels - 1) /\ v.level < Levels - 1
    BY <1>1 DEF WalkRecs
  <2>3. v.level + 1 \in 0..(Levels - 1)
    BY <1>0, <2>2
  <2>4. w \in WalkRecs
    BY <1>3, <2>1, <2>3 DEF WalkRecs
  <2>5. walk' = [walk EXCEPT ![c] = w] /\ pc' = [pc EXCEPT ![c] = "walk"]
    BY <1>0, <1>1, <1>3, <2>1 DEF GoDown
  <2>6. WalkTyped("walk", req[c].arg, w)
    BY DEF Typed, WalkTyped, MapPcs
  <2> QED BY <1>0, <2>4, <2>5, <2>6, MoveTyped DEF PcValues
<1>4. CASE Followed(e) \notin Tables
  <2>1. walk' = [walk EXCEPT ![c] = v] /\ pc' = [pc EXCEPT ![c] = "wild"]
    BY <1>0, <1>1, <1>4 DEF GoDown
  <2> QED BY <1>0, <1>2, <2>1, MoveTyped DEF PcValues
<1> QED BY <1>3, <1>4

LEMMA StepTyped ==
  ASSUME RegionsFit, Inv, Typed, NEW c \in Contexts, Step(c)
  PROVE  Typed'
<1>0. /\ granted \subseteq Regions /\ walk \in [Contexts -> WalkRecs] /\ walk[c] \in WalkRecs
      /\ TablesTyped(tables) /\ next \in 0..PoolSize /\ WalkTyped(pc[c], req[c].arg, walk[c])
      /\ walk = [walk EXCEPT ![c] = walk[c]]
  BY DEF Typed, MapTypes
<1>a. CASE Begin(c)
  <2>1. WalkTyped("verified", req[c].arg, walk[c])
    BY DEF WalkTyped, MapPcs
  <2> QED BY <1>0, <1>a, <2>1, MoveTyped DEF Begin, machine, PcValues
<1>b. CASE Refuse(c)
  BY <1>0, <1>b, FailTyped DEF Refuse
<1>1. CASE Gate(c)
  BY <1>1, SucceedTyped DEF Gate
<1>2. CASE read_performance_counter_x86_64(c)
  BY <1>2, SucceedTyped DEF read_performance_counter_x86_64
<1>3. CASE read_performance_counter_riscv64(c)
  BY <1>0, <1>3, SucceedTyped, FailTyped DEF read_performance_counter_riscv64
<1>4. CASE select_counter_arm64(c)
  <2>1. WalkTyped("mrs", req[c].arg, walk[c])
    BY DEF WalkTyped, MapPcs
  <2> QED BY <1>0, <1>4, <2>1, MoveTyped DEF select_counter_arm64, PcValues
<1>5. CASE read_selected_arm64(c)
  BY <1>5, SucceedTyped DEF read_selected_arm64
<1>6. CASE map_mmio_region(c)
  <2>1. pc[c] = "verified" /\ req[c].op = "map_mmio_region" /\ granted' = granted \cup {req[c].arg}
          /\ UNCHANGED <<arch, guarded, now, machine>>
    BY <1>6 DEF map_mmio_region
  <2>2. req[c].arg \in Regions
    BY <2>1, MapArgument
  <2>3. granted' \subseteq Regions
    BY <1>0, <2>1, <2>2
  <2>4. CASE req[c].arg.size = 0
    BY <1>6, <2>1, <2>3, <2>4, FailTyped DEF map_mmio_region
  <2>5. CASE req[c].arg.size # 0
    <3>1. PICK p \in Nat : p = FirstPage(req[c].arg)
      BY <2>2, RegionPages
    <3>2. PICK w : w = [NoWalk EXCEPT !.page = p]
      OBVIOUS
    <3>3. w \in WalkRecs
      BY <3>2, NoWalkTyped DEF WalkRecs, NoWalk
    <3>4. pc' = [pc EXCEPT ![c] = "walk"] /\ walk' = [walk EXCEPT ![c] = w] /\ UNCHANGED req
      BY <1>6, <2>5, <3>1, <3>2 DEF map_mmio_region
    <3>5. WalkTyped("walk", req[c].arg, w)
      BY <2>2, <2>5, DirectConstants DEF WalkTyped
    <3> QED BY <1>0, <2>1, <2>3, <3>3, <3>4, <3>5, MoveTyped DEF machine, PcValues
  <2> QED BY <2>4, <2>5
<1>7. CASE Descend(c)
  <2>1. /\ pc[c] = "walk" /\ pc[c] \in MapPcs /\ walk[c].level < Levels - 1
        /\ UNCHANGED <<arch, guarded, now, tables, next, req, granted>>
    BY <1>7 DEF Descend, Walking, machine, MapPcs
  <2>2. CASE Here(c) = Empty
    <3>1. pc' = [pc EXCEPT ![c] = "alloc"] /\ walk' = [walk EXCEPT ![c] = walk[c]]
      BY <1>0, <1>7, <2>2 DEF Descend
    <3>2. WalkTyped("alloc", req[c].arg, walk[c])
      BY <1>0, <2>1 DEF WalkTyped, MapPcs
    <3> QED BY <1>0, <2>1, <3>1, <3>2, MoveTyped DEF PcValues
  <2>3. CASE Here(c) # Empty
    <3>1. GoDown(c, Here(c))
      BY <1>7, <2>3 DEF Descend
    <3> QED BY <1>0, <2>1, <3>1, GoDownTyped
  <2> QED BY <2>2, <2>3
<1>8. CASE alloc_table(c)
  <2>1. pc[c] = "alloc" /\ UNCHANGED <<arch, guarded, now, machine, granted>>
    BY <1>8 DEF alloc_table
  <2>2. CASE next >= PoolSize
    BY <1>0, <1>8, <2>1, <2>2, FailTyped DEF alloc_table
  <2>3. CASE ~(next >= PoolSize)
    <3>1. PICK v \in WalkRecs : v = walk[c]
      BY <1>0
    <3>2. PICK w : w = [v EXCEPT !.slot = next]
      OBVIOUS
    <3>3. w \in WalkRecs /\ w.level = v.level /\ w.slot = next
      BY <1>0, <3>2 DEF WalkRecs
    <3>4. walk' = [walk EXCEPT ![c] = w] /\ pc' = [pc EXCEPT ![c] = "link"] /\ UNCHANGED req
      BY <1>0, <1>8, <2>3, <3>1, <3>2 DEF alloc_table
    <3>5. next < PoolSize
      BY <1>0, <2>3, DirectConstants
    <3>6. WalkTyped("link", req[c].arg, w)
      BY <1>0, <2>1, <3>1, <3>3, <3>5 DEF WalkTyped, MapPcs
    <3> QED BY <1>0, <2>1, <3>3, <3>4, <3>6, MoveTyped DEF machine, PcValues
  <2> QED BY <2>2, <2>3
<1>9. CASE link_table(c)
  <2>1. pc[c] = "link" /\ pc[c] \in MapPcs /\ UNCHANGED <<arch, guarded, now, req, granted>>
    BY <1>9 DEF link_table, MapPcs
  <2>2. PICK v \in WalkRecs : v = walk[c]
    BY <1>0
  <2>3. PICK n \in Nat : n = v.slot /\ n < PoolSize
    BY <1>0, <2>1, <2>2, DirectConstants DEF WalkTyped, WalkRecs
  <2>4. v.page \in Nat /\ v.level \in 0..(Levels - 1) /\ v.table \in Tables
          /\ walk[c].level < Levels - 1
    BY <1>0, <2>1 DEF WalkRecs, WalkTyped
  <2>5. PICK i \in Indices : i = Index(v.page, v.level)
    BY <2>4, IndexFacts
  <2>6. next' \in 0..PoolSize
    BY <1>9, <2>2, <2>3, DirectConstants DEF link_table
  <2>7. PICK e \in AllEntries : e = TableEntry(n + 1)
    <3>1. n + 1 \in 1..PoolSize
      BY <2>3, DirectConstants
    <3> QED BY <3>1, EntryFacts
  <2>8. Written(tables', tables, v.table, i, e)
    BY <1>9, <2>2, <2>3, <2>5, <2>7 DEF link_table, Written
  <2>9. TablesTyped(tables')
    BY <1>0, <2>4, <2>8, WriteEntry DEF TablesTyped
  <2>10. GoDown(c, e)
    BY <1>9, <2>2, <2>3, <2>7 DEF link_table
  <2> QED BY <2>1, <2>4, <2>6, <2>9, <2>10, GoDownTyped
<1>10. CASE map_page(c)
  <2>1. /\ pc[c] = "walk" /\ walk[c].page <= LastPage(req[c].arg)
        /\ UNCHANGED <<arch, guarded, now, next, pc, req, granted>>
    BY <1>10 DEF map_page, Walking
  <2>2. PICK v \in WalkRecs : v = walk[c]
    BY <1>0
  <2>3. v.page \in Nat /\ v.level \in 0..(Levels - 1) /\ v.table \in Tables
    BY DEF WalkRecs
  <2>4. req[c].arg \in Regions /\ req[c].arg.size > 0
    BY <1>0, <2>1 DEF WalkTyped, MapPcs
  <2>5. LastPage(req[c].arg) \in Pages /\ Power[Levels] \in Nat
    BY <2>4, StrideFacts DEF RegionsFit
  <2>6. PICK p \in Pages : p = v.page
    BY <2>1, <2>2, <2>3, <2>5 DEF Pages
  <2>7. PICK i \in Indices : i = Index(v.page, v.level)
    BY <2>3, IndexFacts
  <2>8. PICK e \in AllEntries : e = PageEntry(p)
    BY EntryFacts
  <2>9. Written(tables', tables, v.table, i, e)
    BY <1>10, <2>2, <2>6, <2>7, <2>8 DEF map_page, Written
  <2>10. TablesTyped(tables')
    BY <1>0, <2>3, <2>9, WriteEntry DEF TablesTyped
  <2>11. PICK w : w = [NoWalk EXCEPT !.page = v.page + 1]
    OBVIOUS
  <2>12. v.page + 1 \in Nat
    BY <2>3
  <2>13. w \in WalkRecs
    BY <2>11, <2>12, NoWalkTyped DEF WalkRecs, NoWalk
  <2>14. walk' = [walk EXCEPT ![c] = w]
    BY <1>10, <2>2, <2>11 DEF map_page
  <2>15. pc' = [pc EXCEPT ![c] = "walk"]
    BY <2>1 DEF Typed, MapTypes
  <2>16. WalkTyped("walk", req[c].arg, w)
    BY <2>4 DEF WalkTyped
  <2> QED BY <1>0, <2>1, <2>10, <2>13, <2>14, <2>15, <2>16, MoveTyped DEF PcValues
<1>11. CASE Mapped(c)
  BY <1>11, SucceedTyped DEF Mapped
<1> QED
  BY <1>a, <1>b, <1>1, <1>2, <1>3, <1>4, <1>5, <1>6, <1>7, <1>8, <1>9, <1>10, <1>11 DEF Step

LEMMA NextTyped ==
  ASSUME RegionsFit, Inv, Typed, [Next]_vars
  PROVE  Typed'
<1>1. ASSUME NEW c \in Contexts, NEW r \in Requests, Call(c, r) PROVE Typed'
  <2>1. /\ granted' \subseteq Regions /\ walk[c] \in WalkRecs /\ walk' = [walk EXCEPT ![c] = walk[c]]
        /\ TablesTyped(tables') /\ next' \in 0..PoolSize
    BY <1>1 DEF Typed, MapTypes, Call, machine
  <2>2. WalkTyped("called", r.arg, walk[c])
    BY DEF WalkTyped, MapPcs
  <2> QED BY <1>1, <2>1, <2>2, TypedStep DEF Call, PcValues
<1>2. ASSUME Tick PROVE Typed'
  <2>1. now' \in 0..MaxNow
    BY <1>2, DirectConstants DEF Tick, Typed, MapTypes
  <2> QED BY <1>2, <2>1 DEF Tick, machine, Typed, MapTypes
<1>3. ASSUME UNCHANGED vars PROVE Typed'
  BY <1>3 DEF vars, machine, Typed, MapTypes
<1> QED BY <1>1, <1>2, <1>3, StepTyped DEF Next

LEMMA MapNext ==
  ASSUME RegionsFit, PoolFits, Inv, guarded, NEW lv, NEW pre, MapState(lv, pre), [Next]_vars
  PROVE  \E lv2, pre2 : MapState(lv2, pre2)'
<1>1. ASSUME NEW c \in Contexts, Step(c) PROVE \E lv2, pre2 : MapState(lv2, pre2)'
  BY <1>1, StepMap
<1>2. ASSUME NEW c \in Contexts, NEW r \in Requests, Call(c, r) PROVE MapState(lv, pre)'
  BY <1>2, CallMap
<1>3. ASSUME Tick PROVE MapState(lv, pre)'
  <2>1. UNCHANGED <<arch, guarded, tables, next, pc, req, walk, ret, granted>>
    BY <1>3 DEF Tick, machine
  <2>2. now' \in 0..MaxNow
    BY <1>3, DirectConstants DEF Tick, MapState, MapTypes
  <2> QED BY <2>1, <2>2 DEF MapState, MapTypes, OneMapping
<1>4. ASSUME UNCHANGED vars PROVE MapState(lv, pre)'
  BY <1>4 DEF vars, machine, MapState, MapTypes, OneMapping
<1> QED BY <1>1, <1>2, <1>3, <1>4 DEF Next

\* The two invariants together.
LEMMA TypedInvariant == ASSUME RegionsFit PROVE Spec => [](Inv /\ Typed)
<1>1. Init => Inv /\ Typed
  BY InitInv, InitMap
<1>2. Inv /\ Typed /\ [Next]_vars => Inv' /\ Typed'
  BY NextInv, NextTyped
<1> QED BY <1>1, <1>2, PTL DEF Spec

LEMMA MapInvariant == ASSUME RegionsFit, PoolFits PROVE Spec => []MapInv
<1>1. Init => MapInv
  BY InitInv, InitMap DEF MapInv
<1>2. MapInv /\ [Next]_vars => MapInv'
  <2> SUFFICES ASSUME MapInv, [Next]_vars PROVE MapInv'
    OBVIOUS
  <2>1. Inv' /\ Typed'
    BY NextInv, NextTyped DEF MapInv
  <2>2. ASSUME guarded' PROVE \E lv2, pre2 : MapState(lv2, pre2)'
    <3>1. guarded
      BY <2>2, GuardedStays
    <3>2. PICK lv, pre : MapState(lv, pre)
      BY <3>1 DEF MapInv
    <3> QED BY <3>1, <3>2, MapNext DEF MapInv
  <2> QED BY <2>1, <2>2 DEF MapInv
<1> QED BY <1>1, <1>2, PTL DEF Spec

----------------------------------------------------------------------------
\* Types: the pool cursor of alloc_table stays within the pool and map_page
\* inside the tables, for any contexts, pool and depth of the tables, any
\* regions of the address space and calls that interleave in any way.
THEOREM TypeCorrect == ASSUME RegionsFit PROVE Spec => []TypeOK
<1>1. Inv /\ Typed => TypeOK
  <2> SUFFICES ASSUME Typed PROVE TypeOK
    OBVIOUS
  <2>1. \A c \in Contexts : walk[c].table \in Tables /\ walk[c].level \in 0..(Levels - 1)
                              /\ walk[c].slot \in 0..PoolSize
    BY DEF Typed, MapTypes, WalkRecs
  <2> QED BY <2>1 DEF TypeOK, Typed, TablesTyped, MapTypes, PcValues
<1> QED BY <1>1, TypedInvariant, PTL

\* In a kernel that makes one call at a time no page is accessible but those a
\* granted region reaches into, and each of them translates to itself, also
\* after a call of map_mmio_region that ran out of tables.  Regions lie in the
\* address space, and the tables where an entry can name them.
THEOREM AccessIsGranted == ASSUME RegionsFit, PoolFits PROVE Spec => []OnlyGrantedPages
<1>1. MapInv => OnlyGrantedPages
  <2> SUFFICES ASSUME MapInv, guarded, NEW p \in Pages, Translate(p) # Empty
               PROVE  Translate(p) = PageEntry(p) /\ \E r \in granted : Touches(p, r)
    BY DEF OnlyGrantedPages
  <2>1. PICK lv, pre : MapState(lv, pre)
    BY DEF MapInv
  <2>2. Labelled(tables, next, lv, pre) /\ GrantedIn(tables, granted)
    BY <2>1 DEF MapState
  <2>3. Translate(p) = PageEntry(p) /\ \E t \in Tables, i \in Indices : tables[t][i] = PageEntry(p)
    BY <2>2, TranslatesToItself
  <2> QED BY <2>2, <2>3 DEF GrantedIn
<1> QED BY <1>1, MapInvariant, PTL

\* In a kernel that makes one call at a time, when map_mmio_region has returned
\* Ok every page of the region translates to itself, and still does after any
\* later calls; the address it returned is that of the page the region starts
\* in.  Regions lie in the address space, and the tables where an entry can
\* name them.
THEOREM RegionIsMapped == ASSUME RegionsFit, PoolFits PROVE Spec => []MappedWhenOk
<1>1. MapInv => MappedWhenOk
  <2> SUFFICES ASSUME MapInv, NEW c \in Contexts, guarded,
                      ret[c].result = "Ok", req[c].op = "map_mmio_region"
               PROVE  /\ \A p \in Pages : Touches(p, req[c].arg) => Translate(p) = PageEntry(p)
                      /\ ret[c].value <= req[c].arg.base
                      /\ req[c].arg.base < ret[c].value + PageSize
    BY DEF MappedWhenOk
  <2>1. PICK lv, pre : MapState(lv, pre)
    BY DEF MapInv
  <2>2. tables \in [Tables -> [Indices -> AllEntries]] /\ DoneAt(tables, req[c], ret[c])
    BY <2>1 DEF MapState, Labelled
  <2>3. PICK r \in Regions : r = req[c].arg /\ ret[c].value = FirstPage(r) * PageSize
    BY <2>2 DEF DoneAt
  <2>4. ASSUME NEW p \in Pages, Touches(p, r) PROVE Translate(p) = PageEntry(p)
    <3>1. p \in Nat
      BY RootPrefix
    <3>2. MappedIn(tables, p)
      BY <2>2, <2>3, <2>4, <3>1, RegionPages DEF DoneAt
    <3> QED BY <2>2, <3>1, <3>2, MappedTranslates
  <2> QED BY <2>3, <2>4, RegionPages
<1> QED BY <1>1, MapInvariant, PTL
=============================================================================
