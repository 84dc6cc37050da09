---------------------------- MODULE MCDiscovery ----------------------------
(* Small instance of RootTask, and with it of Discovery, for TLC. *)
EXTENDS RootTask

\* The port mechanism under a kernel that masks interrupts around its calls,
\* ECAM under one that lets scans interrupt scans.
MCMachines == {<<"x86_64", TRUE>>, <<"arm64", FALSE>>}

Card(class, vendor, multi, b) == [class |-> class, vendor |-> vendor, multi |-> multi, bar |-> b]

Gpu == Card("display", "other", TRUE, "memory")
Npu == Card("accelerator", "other", FALSE, "io")
Tpu == Card("other", "google", FALSE, "none")
Bridge == Card("other", "other", TRUE, "none")

MCCards == {Gpu, Npu, Tpu, Bridge}

\* Two devices of two functions: an empty bus, a function hidden behind a
\* single-function device, one behind a device that is absent, functions
\* behind a bridge, and more accelerators than the list holds.
Bus(a, b, c, d) == 0 :> a @@ 1 :> b @@ 2 :> c @@ 3 :> d
MCBuses == {Bus(Absent, Absent, Absent, Absent), Bus(Npu, Gpu, Tpu, Absent),
            Bus(Absent, Gpu, Gpu, Bridge), Bus(Bridge, Gpu, Bridge, Npu),
            Bus(Gpu, Tpu, Gpu, Gpu), Bus(Gpu, Absent, Tpu, Npu),
            Bus(Bridge, Bridge, Bridge, Bridge)}
=============================================================================
