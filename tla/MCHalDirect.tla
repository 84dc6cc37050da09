---------------------------- MODULE MCHalDirect ----------------------------
(* Small instance of HalDirect for TLC: three entries per table, two levels. *)
EXTENDS HalDirect, TLC

AllArchs == {"x86_64", "arm64", "riscv64"}

\* An empty region; one from the middle of a page of the first table to the end
\* of a page of the second; and part of a page that needs a third table, which
\* the pool does not have once both are used.
Nil == [base |-> 2, size |-> 0]
Across == [base |-> 5, size |-> 3]
Last == [base |-> 12, size |-> 1]
MCRegions == {Nil, Across, Last}
MCCounters == {1, 2}
MCCoreIds == {0, 2}
MCExpiries == {1, 2}

Minted(s, e) == with_signature(Token(s, e), s, e)
Ask(op, arg, token) == [op |-> op, arg |-> arg, token |-> token]
Map(r, token) == Ask("map_mmio_region", r, token)
Read(n, token) == Ask("read_performance_counter", n, token)

\* Every call with the token the Broker minted for it; and tokens of another
\* region, with a field changed after signing, and without a signature.
MCRequests ==
  {Map(r, Minted(MmioRegion(r), 1)) : r \in MCRegions}
    \cup {Read(n, Minted(PerformanceCounter(n), 1)) : n \in MCCounters}
    \cup {Ask("pin_thread_to_core", n, Minted(ThreadAffinity(n % U32), 1)) : n \in MCCoreIds}
    \cup {Ask("set_numa_policy", None, Minted(NumaPolicy, 2)),
          Map(Last, Minted(MmioRegion(Across), 1)),
          Map(Across, with_signature(Token(MmioRegion(Across), 2), MmioRegion(Across), 1)),
          Read(2, with_signature(Token(PerformanceCounter(2), 1), PerformanceCounter(1), 1)),
          Ask("set_numa_policy", None, Token(NumaPolicy, 2))}

\* The hypotheses of the theorems on the tables hold of this instance.
ASSUME RegionsAreInside == RegionsFit /\ PoolFits

\* Nothing tells one context from another.
ContextSymmetry == Permutations(Contexts)
=============================================================================
