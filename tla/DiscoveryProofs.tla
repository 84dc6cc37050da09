-------------------------- MODULE DiscoveryProofs --------------------------
(***************************************************************************)
(* Proofs about Discovery and RootTask, for every bus, every number of     *)
(* devices and functions, every capacity of the lists, and any number of   *)
(* cards that come and go.                                                 *)
(***************************************************************************)
EXTENDS RootTask, Arithmetic, FiniteSetTheorems, SequenceTheorems, TLAPS

AccKinds == {"Gpu", "Npu", "Tpu"}

\* What a scan appends to its list: push_compute_device numbers it later.
Made == [kind : AccKinds, has_dedicated_memory : BOOLEAN, device_index : {0}]

InProbe == {"original", "ones", "mask", "restore"}

ScanRecs ==
  [ pc : {"header", "devices", "count"} \cup InProbe, at : Slots,
    reg : {"vendor", "class", "multi"}, header : Headers, known : BOOLEAN,
    functions : {1, NFunctions}, list : Seq(Made), kind : {"None"} \cup AccKinds, original : BarValues, mask : BarValues,
    addressed : BOOLEAN ]

\* A scan in progress: what it probes there is room for, and there is a header
\* only while it is read.
ScanOK(st) ==
  /\ st \in ScanRecs
  /\ Len(st.list) <= MaxCompute
  /\ st.pc \in InProbe => st.kind \in AccKinds /\ Len(st.list) < MaxCompute
  /\ st.pc # "header" => st.reg = "vendor"

Registers == [at : Slots, reg : {"vendor", "class", "multi", "bar"}]

Types ==
  /\ arch \in {"x86_64", "arm64", "riscv64"} /\ guarded \in BOOLEAN
  /\ bus \in [Slots -> Cards \cup {Absent}] /\ bar \in [Slots -> BarValues]
  /\ selected \in Registers
  /\ stage \in {"compute", "power", "manifest", "kernel"} /\ ctx \in Contexts
  /\ scan \in [Contexts -> ScanRecs \cup {Idle}]
  /\ \A c \in Contexts : scan[c] = Idle \/ ScanOK(scan[c])
  /\ devices \in [1..MaxCompute -> Entries]
  /\ \A i \in 1..MaxCompute : devices[i].device_index = 0
  /\ device_count \in 0..MaxCompute

\* Whose turn it is: a handler has returned before the thread goes on, a kernel
\* that masks interrupts is not interrupted in a scan, and boot is one thread.
Turns ==
  /\ ctx = "thread" => scan["isr"] = Idle
  /\ guarded /\ ctx = "isr" => scan["thread"] = Idle
  /\ stage # "kernel" => ctx = "thread"
  /\ stage \in {"power", "manifest"} => scan["thread"] = Idle

LEMMA DiscoveryConstants ==
  /\ NDevices \in Nat \ {0} /\ NFunctions \in Nat \ {0}
  /\ MaxCompute \in Nat \ {0} /\ MaxDomains \in Nat \ {0}
  /\ 0 \in Slots /\ Slots \subseteq Nat
<1>1. /\ NDevices \in Nat \ {0} /\ NFunctions \in Nat \ {0}
      /\ MaxCompute \in Nat \ {0} /\ MaxDomains \in Nat \ {0}
  BY DiscoveryAssumption
<1>2. NDevices * NFunctions \in Nat /\ NDevices * NFunctions >= 1
  BY <1>1
<1> QED BY <1>1, <1>2 DEF Slots

LEMMA BarTypes ==
  ASSUME NEW card \in Cards \cup {Absent}, NEW v \in BarValues
  PROVE  /\ Wired(card, v) \in BarValues /\ Assigned(card) \in BarValues
         /\ Wired(card, Assigned(card)) = Assigned(card)
<1>1. PICK a : a = [io |-> FALSE, rest |-> "address"]
  OBVIOUS
<1>2. a \in BarValues
  BY <1>1 DEF BarValues
<1>3. \A w \in BarValues : Wired(card, w) \in BarValues /\ Wired(card, Wired(card, w)) = Wired(card, w)
  <2>1. SUFFICES ASSUME NEW w \in BarValues
                 PROVE  Wired(card, w) \in BarValues /\ Wired(card, Wired(card, w)) = Wired(card, w)
    OBVIOUS
  <2>2. CASE card = Absent
    BY <2>2 DEF Wired, Ones, BarValues
  <2>3. CASE card # Absent /\ card.bar = "none"
    BY <2>3 DEF Wired, Zero, BarValues
  <2>4. CASE card # Absent /\ card.bar # "none"
    <3>1. PICK io \in BOOLEAN : io = (card.bar = "io")
      OBVIOUS
    <3>2. \A x : Wired(card, x) = [x EXCEPT !.io = io]
      BY <2>4, <3>1 DEF Wired
    <3>3. \A x \in BarValues : [x EXCEPT !.io = io] = [io |-> io, rest |-> x.rest]
      BY DEF BarValues
    <3>4. \A x \in BarValues : [io |-> io, rest |-> x.rest] \in BarValues
      BY DEF BarValues
    <3> QED BY <3>2, <3>3, <3>4
  <2> QED BY <2>2, <2>3, <2>4
<1> QED BY <1>1, <1>2, <1>3 DEF Assigned

LEMMA AssignedType == ASSUME NEW card \in Cards \cup {Absent} PROVE Assigned(card) \in BarValues
<1>1. Zero \in BarValues
  BY DEF Zero, BarValues
<1> QED BY <1>1, BarTypes

LEMMA AdvanceEffect ==
  ASSUME NEW st \in ScanRecs
  PROVE  /\ Advance(st) \in ScanRecs /\ Advance(st).pc \in {"header", "devices"}
         /\ Advance(st).list = st.list /\ Advance(st).addressed = st.addressed
         /\ Advance(st).reg = st.reg
<1>1. PICK at :
        Advance(st) = IF at \in Slots
                      THEN [st EXCEPT !.pc = "header", !.at = at, !.known = Function(at) # 0]
                      ELSE [st EXCEPT !.pc = "devices"]
  BY DEF Advance
<1>2. PICK known \in BOOLEAN : known = (Function(at) # 0)
  OBVIOUS
<1>3. Advance(st) = IF at \in Slots THEN [st EXCEPT !.pc = "header", !.at = at, !.known = known]
                    ELSE [st EXCEPT !.pc = "devices"]
  BY <1>1, <1>2
<1> QED BY <1>3 DEF ScanRecs

LEMMA ClassifyKinds ==
  ASSUME NEW header PROVE classify_pci_device(header) \in {"None"} \cup AccKinds
BY DEF classify_pci_device, AccKinds

LEMMA VisitEffect ==
  ASSUME NEW st, ScanOK(st), st.reg = "vendor", ~st.addressed, NEW header
  PROVE  /\ ScanOK(Visit(st, header)) /\ ~Visit(st, header).addressed
         /\ Visit(st, header).pc \in {"header", "original", "devices"}
<1>1. st \in ScanRecs
  BY DEF ScanOK
<1>2. CASE header = Absent \/ classify_pci_device(header) = "None"
  <2>1. Visit(st, header) = Advance(st)
    BY <1>2 DEF Visit
  <2> QED BY <1>1, <2>1, AdvanceEffect DEF ScanOK, InProbe
<1>3. CASE ~(header = Absent \/ classify_pci_device(header) = "None")
  <2>1. classify_pci_device(header) \in AccKinds
    BY <1>3, ClassifyKinds
  <2>2. CASE Len(st.list) >= MaxCompute
    <3>1. Visit(st, header) = [st EXCEPT !.pc = "devices"]
      BY <1>3, <2>2 DEF Visit
    <3> QED BY <1>1, <3>1 DEF ScanOK, ScanRecs, InProbe
  <2>3. CASE ~(Len(st.list) >= MaxCompute)
    <3>1. Visit(st, header) = [st EXCEPT !.pc = "original", !.kind = classify_pci_device(header)]
      BY <1>3, <2>3 DEF Visit
    <3>2. Len(st.list) < MaxCompute
      BY <1>1, <2>3, DiscoveryConstants, LenProperties DEF ScanRecs
    <3> QED BY <1>1, <2>1, <3>1, <3>2 DEF ScanOK, ScanRecs, InProbe
  <2> QED BY <2>2, <2>3
<1> QED BY <1>2, <1>3

LEMMA CountEffect ==
  ASSUME NEW st, ScanOK(st), st.pc = "header", st.reg = "vendor", ~st.addressed, NEW header
  PROVE  /\ ScanOK(CountFunctions(st, header)) /\ ~CountFunctions(st, header).addressed
         /\ CountFunctions(st, header).pc \in {"header", "devices"}
<1>1. st \in ScanRecs
  BY DEF ScanOK
<1>2. CASE header = Absent
  <2>1. PICK one : one = [st EXCEPT !.functions = 1]
    OBVIOUS
  <2>2. one \in ScanRecs /\ one.list = st.list /\ ~one.addressed /\ one.reg = "vendor"
    BY <1>1, <2>1 DEF ScanRecs
  <2>3. CountFunctions(st, header) = Advance(one)
    BY <1>2, <2>1 DEF CountFunctions
  <2> QED BY <2>2, <2>3, AdvanceEffect DEF ScanOK, InProbe
<1>3. CASE header # Absent
  <2>1. PICK functions \in {1, NFunctions} : functions = IF header.multi THEN NFunctions ELSE 1
    OBVIOUS
  <2>2. CountFunctions(st, header) = [st EXCEPT !.known = TRUE, !.functions = functions]
    BY <1>3, <2>1 DEF CountFunctions
  <2> QED BY <1>1, <2>2 DEF ScanOK, ScanRecs, InProbe
<1> QED BY <1>2, <1>3

\* The header so far is forgotten, whatever becomes of the scan.
LEMMA IdentifiedEffect ==
  ASSUME NEW st, ScanOK(st), st.pc = "header", NEW header
  PROVE  /\ ScanOK(Identified(st, header)) /\ ~Identified(st, header).addressed
         /\ Identified(st, header).pc \in {"header", "original", "devices"}
<1>1. PICK here : here = [st EXCEPT !.reg = "vendor", !.header = Blank, !.addressed = FALSE]
  OBVIOUS
<1>2. Blank \in Headers
  BY DEF Blank, Headers
<1>3. ScanOK(here) /\ here.pc = "header" /\ here.reg = "vendor" /\ ~here.addressed
  BY <1>1, <1>2 DEF ScanOK, ScanRecs, InProbe
<1>4. Identified(st, header) = IF st.known THEN Visit(here, header) ELSE CountFunctions(here, header)
  BY <1>1 DEF Identified
<1> QED BY <1>3, <1>4, VisitEffect, CountEffect

\* What a read of a header's dword may yield.
DwordsOf(reg) ==
  CASE reg = "vendor" -> {"absent", "google", "other"}
    [] reg = "class" -> {"display", "accelerator", "other"}
    [] reg = "multi" -> BOOLEAN

LEMMA DwordType ==
  ASSUME NEW card \in Cards \cup {Absent}, NEW reg \in {"vendor", "class", "multi"}
  PROVE  Dword(card, reg) \in DwordsOf(reg)
<1>1. card # Absent => /\ card.vendor \in {"google", "other"} /\ card.multi \in BOOLEAN
                       /\ card.class \in {"display", "accelerator", "other"}
  BY DiscoveryAssumption
<1> QED BY <1>1 DEF Dword, DwordsOf

LEMMA ReadEffect ==
  ASSUME NEW st, ScanOK(st), st.pc = "header", NEW v \in DwordsOf(st.reg)
  PROVE  /\ ScanOK(ReadDword(st, v)) /\ ~ReadDword(st, v).addressed
         /\ ReadDword(st, v).pc \in {"header", "original", "devices"}
<1>1. CASE st.reg = "vendor" /\ v = "absent"
  <2>1. ReadDword(st, v) = Identified(st, Absent)
    BY <1>1 DEF ReadDword
  <2> QED BY <2>1, IdentifiedEffect
<1>2. CASE st.reg = "vendor" /\ v # "absent"
  <2>1. PICK h : h = [st.header EXCEPT !.vendor = v]
    OBVIOUS
  <2>2. h \in Headers
    BY <1>2, <2>1 DEF ScanOK, ScanRecs, Headers, DwordsOf
  <2>3. ReadDword(st, v) = [st EXCEPT !.header = h, !.reg = "class", !.addressed = FALSE]
    BY <1>2, <2>1 DEF ReadDword, ScanOK, ScanRecs
  <2> QED BY <2>2, <2>3 DEF ScanOK, ScanRecs, InProbe
<1>3. CASE st.reg = "class"
  <2>1. PICK h : h = [st.header EXCEPT !.class = v]
    OBVIOUS
  <2>2. h \in Headers
    BY <1>3, <2>1 DEF ScanOK, ScanRecs, Headers, DwordsOf
  <2>3. ReadDword(st, v) = [st EXCEPT !.header = h, !.reg = "multi", !.addressed = FALSE]
    BY <1>3, <2>1 DEF ReadDword, ScanOK, ScanRecs
  <2> QED BY <2>2, <2>3 DEF ScanOK, ScanRecs, InProbe
<1>4. CASE st.reg = "multi"
  <2>1. ReadDword(st, v) = Identified(st, [st.header EXCEPT !.multi = v])
    BY <1>4 DEF ReadDword
  <2> QED BY <2>1, IdentifiedEffect
<1> QED BY <1>1, <1>2, <1>3, <1>4 DEF ScanOK, ScanRecs

LEMMA FoundEffect ==
  ASSUME NEW st, ScanOK(st), st.pc \in InProbe, NEW memory \in BOOLEAN
  PROVE  /\ ScanOK(Found(st, memory)) /\ Found(st, memory).addressed = st.addressed
         /\ Found(st, memory).pc \in {"header", "devices"}
         /\ Found(st, memory).list = Append(st.list, Entry(st.kind, memory))
<1>1. PICK more : more = Append(st.list, Entry(st.kind, memory))
  OBVIOUS
<1>2. Entry(st.kind, memory) \in Made
  BY DEF ScanOK, Entry, Made
<1>3. st.list \in Seq(Made) /\ Len(st.list) < MaxCompute /\ Len(st.list) \in Nat
  BY LenProperties DEF ScanOK, ScanRecs
<1>4. more \in Seq(Made) /\ Len(more) = Len(st.list) + 1
  BY <1>1, <1>2, <1>3, AppendProperties
<1>5. Len(more) <= MaxCompute
  BY <1>3, <1>4, DiscoveryConstants
<1>6. PICK grown : grown = [st EXCEPT !.list = more]
  OBVIOUS
<1>7. grown \in ScanRecs /\ grown.list = more /\ grown.addressed = st.addressed
      /\ grown.reg = "vendor"
  BY <1>4, <1>6 DEF ScanOK, ScanRecs, InProbe
<1>8. Found(st, memory) = Advance(grown)
  BY <1>1, <1>6 DEF Found
<1> QED BY <1>1, <1>5, <1>7, <1>8, AdvanceEffect DEF ScanOK, InProbe

----------------------------------------------------------------------------
(***************************************************************************)
(* Whose turn it is, and what a scan's accesses hit.                       *)
(***************************************************************************)

\* One scan at a time: at boot, and under a kernel that masks interrupts.
Alone == guarded \/ stage # "kernel"

\* Then nobody selects another register between the two halves of an x86_64
\* access.
Addressed ==
  arch = "x86_64" /\ Alone =>
    \A c \in Contexts : scan[c] # Idle /\ scan[c].addressed => selected = Wanted(c)

\* A step of the context that runs keeps the types and the turns.
LEMMA ScanStep ==
  ASSUME Types, Turns, NEW c \in Contexts, ctx = c, scan[c] # Idle \/ stage = "kernel",
         NEW st, st = Idle \/ ScanOK(st), scan' = [scan EXCEPT ![c] = st],
         UNCHANGED <<arch, guarded, bus, ctx>>,
         bar' \in [Slots -> BarValues], selected' \in Registers,
         devices' \in [1..MaxCompute -> Entries],
         \A i \in 1..MaxCompute : devices'[i].device_index = 0,
         device_count' \in 0..MaxCompute,
         stage' \in {"compute", "power", "manifest", "kernel"},
         stage' = stage \/ st = Idle, stage' = "kernel" <=> stage = "kernel"
  PROVE  Types' /\ Turns' /\ scan'[c] = st /\ \A d \in Contexts \ {c} : scan'[d] = scan[d]
<1>1. st \in ScanRecs \cup {Idle}
  BY DEF ScanOK
<1>2. scan'[c] = st /\ \A d \in Contexts \ {c} : scan'[d] = scan[d]
  BY DEF Types
<1>3. scan' \in [Contexts -> ScanRecs \cup {Idle}]
  BY <1>1 DEF Types
<1>4. \A d \in Contexts : scan'[d] = Idle \/ ScanOK(scan'[d])
  BY <1>2 DEF Types
<1>5. Types'
  BY <1>3, <1>4 DEF Types, ScanOK
<1>6. Turns'
  <2>1. CASE c = "thread"
    <3>1. scan'["isr"] = scan["isr"] /\ scan'["thread"] = st
      BY <1>2, <2>1 DEF Contexts
    <3> QED BY <2>1, <3>1 DEF Turns
  <2>2. CASE c = "isr"
    <3>1. scan'["thread"] = scan["thread"] /\ stage = "kernel"
      BY <1>2, <2>2 DEF Contexts, Turns
    <3> QED BY <2>2, <3>1 DEF Turns
  <2> QED BY <2>1, <2>2 DEF Contexts
<1> QED BY <1>2, <1>5, <1>6

LEMMA OtherIdle ==
  ASSUME Types, Turns, Alone
  PROVE  \A d \in Contexts : d # ctx => scan[d] = Idle
BY DEF Types, Turns, Contexts, Alone

\* After an access nothing is addressed any more.
LEMMA StepAddressed ==
  ASSUME Types, Turns, NEW c \in Contexts, ctx = c, UNCHANGED <<arch, guarded>>, Alone' => Alone,
         NEW st, st # Idle => ~st.addressed, scan'[c] = st,
         \A d \in Contexts \ {c} : scan'[d] = scan[d]
  PROVE  Addressed'
<1>1. Alone => \A d \in Contexts : d # c => scan'[d] = Idle
  BY OtherIdle
<1> QED BY <1>1 DEF Addressed

LEMMA WantedType ==
  ASSUME NEW c \in Contexts, ScanOK(scan[c])
  PROVE  Wanted(c) \in Registers
BY DEF Wanted, Register, Registers, ScanOK, ScanRecs

LEMMA HitType ==
  ASSUME Types, NEW c \in Contexts, ScanOK(scan[c])
  PROVE  Hit(c) \in Registers
BY WantedType DEF Hit, Types

LEMMA Running ==
  ASSUME Types, NEW c \in Contexts, NEW pc, Access(c, pc), pc # "idle"
  PROVE  ctx = c /\ scan[c].pc = pc /\ ScanOK(scan[c]) /\ scan[c] # Idle
<1>1. scan[c] # Idle
  BY DEF Access, Idle
<1> QED BY <1>1 DEF Access, Types

\* An access of a probe hits the BAR it is meant for.
LEMMA HitsOwnBar ==
  ASSUME Types, Addressed, NEW c \in Contexts, NEW pc \in InProbe, Access(c, pc),
         arch # "x86_64" \/ Alone
  PROVE  Hit(c).at = scan[c].at /\ Hit(c).reg = "bar"
<1>1. scan[c].pc = pc /\ scan[c] # Idle
  BY Running DEF InProbe
<1>2. Hit(c) = Wanted(c)
  BY <1>1 DEF Hit, Addressed, Access
<1>3. Wanted(c) = [at |-> scan[c].at, reg |-> "bar"]
  BY <1>1 DEF Wanted, Register, InProbe
<1> QED BY <1>2, <1>3

LEMMA ReadsType ==
  ASSUME Types, NEW c \in Contexts, ScanOK(scan[c])
  PROVE  Dwords(c) \subseteq DwordsOf(scan[c].reg) /\ Bars(c) \subseteq BarValues
<1>1. Hit(c) \in Registers
  BY HitType
<1>2. PICK reg \in {"vendor", "class", "multi"} : reg = scan[c].reg
  BY DEF ScanOK, ScanRecs
<1>3. Hit(c).at \in Slots /\ bus[Hit(c).at] \in Cards \cup {Absent}
  BY <1>1 DEF Types, Registers
<1>4. Dwords(c) \subseteq DwordsOf(reg)
  BY <1>2, <1>3, DwordType DEF Dwords
<1>5. \A card \in Cards \cup {Absent} : Assigned(card) \in BarValues
  BY AssignedType
<1>6. Bars(c) \subseteq BarValues
  BY <1>3, <1>5 DEF Bars, Types
<1> QED BY <1>2, <1>4, <1>6

LEMMA WriteType ==
  ASSUME Types, NEW c \in Contexts, ScanOK(scan[c]), NEW v \in BarValues, Write(c, v)
  PROVE  /\ bar' \in [Slots -> BarValues]
         /\ \A s \in Slots : s # Hit(c).at => bar'[s] = bar[s]
         /\ Hit(c).reg = "bar" => bar'[Hit(c).at] = Wired(bus[Hit(c).at], v)
<1>1. Hit(c).at \in Slots
  BY HitType DEF Registers
<1>2. Wired(bus[Hit(c).at], v) \in BarValues
  BY <1>1, BarTypes DEF Types
<1> QED BY <1>1, <1>2 DEF Write, Types

----------------------------------------------------------------------------
(***************************************************************************)
(* The BARs.                                                               *)
(***************************************************************************)
ProbesAt(c, s) == Probing(c) /\ scan[c].at = s

\* The value a probe will write back is the assigned one, but for a handler's
\* probe of a BAR that the thread it interrupted is probing too: that one may
\* restore all ones, and the thread then restores the address.
BarOK(s) ==
  /\ (\A c \in Contexts : ~ProbesAt(c, s)) => bar[s] = Assigned(bus[s])
  /\ ProbesAt("thread", s) => scan["thread"].original = Assigned(bus[s])
  /\ ProbesAt("isr", s) /\ ~ProbesAt("thread", s) => scan["isr"].original = Assigned(bus[s])

BarsInv == arch # "x86_64" \/ guarded => \A s \in Slots \ torn : BarOK(s)

ScanInv == Types /\ Turns /\ Addressed /\ BarsInv

\* A slot that neither probes nor writes concern.
LEMMA BarFrame ==
  ASSUME NEW s \in Slots, BarOK(s), bar'[s] = bar[s], bus'[s] = bus[s],
         \A c \in Contexts : ProbesAt(c, s)' <=> ProbesAt(c, s),
         \A c \in Contexts : ProbesAt(c, s) => scan'[c].original = scan[c].original
  PROVE  BarOK(s)'
<1>1. "thread" \in Contexts /\ "isr" \in Contexts
  BY DEF Contexts
<1>2. Assigned(bus[s])' = Assigned(bus[s])
  BY DEF Assigned, Wired
<1> QED BY <1>1, <1>2 DEF BarOK

\* Steps that neither begin nor end a probe.
LEMMA QuietBars ==
  ASSUME BarsInv, UNCHANGED <<arch, guarded, bus, bar, torn>>, NEW c \in Contexts, NEW st,
         scan'[c] = st, \A d \in Contexts \ {c} : scan'[d] = scan[d],
         \/ ~Probing(c) /\ st.pc \notin {"ones", "mask", "restore"}
         \/ Probing(c) /\ st.pc \in {"ones", "mask", "restore"} /\ st.at = scan[c].at
            /\ st.original = scan[c].original
  PROVE  BarsInv'
<1> SUFFICES ASSUME arch # "x86_64" \/ guarded, NEW s \in Slots \ torn PROVE BarOK(s)'
  BY DEF BarsInv
<1>1. \A d \in Contexts : ProbesAt(d, s)' <=> ProbesAt(d, s)
  BY DEF ProbesAt, Probing
<1>2. \A d \in Contexts : ProbesAt(d, s) => scan'[d].original = scan[d].original
  BY DEF ProbesAt, Probing
<1> QED BY <1>1, <1>2, BarFrame DEF BarsInv

LEMMA SelectInv == ASSUME ScanInv, NEW c \in Contexts, Select(c) PROVE ScanInv'
<1>1. PICK st : st = [scan[c] EXCEPT !.addressed = TRUE]
  OBVIOUS
<1>2. /\ ctx = c /\ scan[c] # Idle /\ ScanOK(scan[c])
      /\ scan' = [scan EXCEPT ![c] = st] /\ selected' = Wanted(c)
      /\ UNCHANGED <<arch, guarded, bus, bar, stage, ctx, devices, device_count, torn>>
  BY <1>1 DEF Select, ScanInv, Types, Idle, fixed, hardware, lists, history
<1>3. /\ ScanOK(st) /\ st.addressed /\ st.pc = scan[c].pc /\ st.at = scan[c].at
      /\ st.original = scan[c].original /\ st.reg = scan[c].reg
  BY <1>1, <1>2 DEF ScanOK, ScanRecs
<1>4. Types' /\ Turns' /\ scan'[c] = st /\ \A d \in Contexts \ {c} : scan'[d] = scan[d]
  <2>1. selected' \in Registers
    BY <1>2, WantedType
  <2> QED BY <1>2, <1>3, <2>1, ScanStep DEF ScanInv, Types
<1>5. Addressed'
  <2>1. Wanted(c)' = selected'
    BY <1>2, <1>3, <1>4 DEF Wanted, Register
  <2>2. Alone => \A d \in Contexts : d # c => scan'[d] = Idle
    BY <1>2, <1>4, OtherIdle DEF ScanInv
  <2>3. Alone' => Alone
    BY <1>2 DEF Alone
  <2> QED BY <1>2, <2>1, <2>2, <2>3 DEF Addressed
<1>6. BarsInv'
  BY <1>2, <1>3, <1>4, QuietBars DEF ScanInv, Probing
<1> QED BY <1>4, <1>5, <1>6 DEF ScanInv

\* Steps that only move the scan, and not into a probe or out of one.
LEMMA QuietStep ==
  ASSUME ScanInv, NEW c \in Contexts, ctx = c, scan[c] # Idle \/ stage = "kernel",
         NEW st, st = Idle \/ ScanOK(st), st # Idle => ~st.addressed,
         scan' = [scan EXCEPT ![c] = st],
         UNCHANGED <<arch, guarded, bus, bar, selected, ctx, torn>>,
         devices' \in [1..MaxCompute -> Entries],
         \A i \in 1..MaxCompute : devices'[i].device_index = 0,
         device_count' \in 0..MaxCompute,
         stage' \in {"compute", "power", "manifest", "kernel"},
         stage' = stage \/ st = Idle, stage' = "kernel" <=> stage = "kernel",
         \/ ~Probing(c) /\ st.pc \notin {"ones", "mask", "restore"}
         \/ Probing(c) /\ st.pc \in {"ones", "mask", "restore"} /\ st.at = scan[c].at
            /\ st.original = scan[c].original
  PROVE  ScanInv'
<1>1. Types' /\ Turns' /\ scan'[c] = st /\ \A d \in Contexts \ {c} : scan'[d] = scan[d]
  BY ScanStep DEF ScanInv, Types
<1>2. Addressed'
  BY <1>1, StepAddressed DEF ScanInv, Alone
<1>3. BarsInv'
  BY <1>1, QuietBars DEF ScanInv
<1> QED BY <1>1, <1>2, <1>3 DEF ScanInv

LEMMA HeaderInv == ASSUME ScanInv, NEW c \in Contexts, read_pci_header(c) PROVE ScanInv'
<1>1. ctx = c /\ scan[c].pc = "header" /\ ScanOK(scan[c]) /\ scan[c] # Idle
  BY Running DEF read_pci_header, ScanInv
<1>2. PICK v \in Dwords(c) : scan' = [scan EXCEPT ![c] = ReadDword(@, v)]
  BY DEF read_pci_header
<1>3. PICK st : st = ReadDword(scan[c], v)
  OBVIOUS
<1>4. ScanOK(st) /\ ~st.addressed /\ st.pc \in {"header", "original", "devices"}
  BY <1>1, <1>2, <1>3, ReadsType, ReadEffect DEF ScanInv
<1>5. scan' = [scan EXCEPT ![c] = st]
  BY <1>2, <1>3
<1>6. UNCHANGED <<arch, guarded, bus, bar, selected, stage, ctx, devices, device_count, torn>>
  BY DEF read_pci_header, fixed, hardware, lists, history
<1>7. ~Probing(c) /\ st.pc \notin {"ones", "mask", "restore"}
  BY <1>1, <1>4 DEF Probing
<1> QED BY <1>1, <1>4, <1>5, <1>6, <1>7, QuietStep DEF ScanInv, Types

LEMMA MaskInv == ASSUME ScanInv, NEW c \in Contexts, ReadMask(c) PROVE ScanInv'
<1>1. ctx = c /\ scan[c].pc = "mask" /\ ScanOK(scan[c]) /\ scan[c] # Idle
  BY Running DEF ReadMask, ScanInv
<1>2. PICK v \in Bars(c) :
        scan' = [scan EXCEPT ![c].pc = "restore", ![c].addressed = FALSE, ![c].mask = v]
  BY DEF ReadMask
<1>3. PICK st : st = [scan[c] EXCEPT !.pc = "restore", !.addressed = FALSE, !.mask = v]
  OBVIOUS
<1>4. v \in BarValues
  BY <1>1, ReadsType DEF ScanInv
<1>5. /\ ScanOK(st) /\ ~st.addressed /\ st.pc = "restore" /\ st.at = scan[c].at
      /\ st.original = scan[c].original
  BY <1>1, <1>3, <1>4 DEF ScanOK, ScanRecs, InProbe
<1>6. scan' = [scan EXCEPT ![c] = st]
  BY <1>2, <1>3
<1>7. UNCHANGED <<arch, guarded, bus, bar, selected, stage, ctx, devices, device_count, torn>>
  BY DEF ReadMask, fixed, hardware, lists, history
<1>8. Probing(c) /\ st.pc \in {"ones", "mask", "restore"}
  BY <1>1, <1>5 DEF Probing
<1> QED BY <1>1, <1>5, <1>6, <1>7, <1>8, QuietStep DEF ScanInv, Types

\* When a probe begins the BAR holds what it will have to restore.
LEMMA OriginalInv == ASSUME ScanInv, NEW c \in Contexts, ReadOriginal(c) PROVE ScanInv'
<1>1. ctx = c /\ scan[c].pc = "original" /\ ScanOK(scan[c]) /\ scan[c] # Idle
  BY Running DEF ReadOriginal, ScanInv
<1>2. PICK v \in Bars(c) :
        LET st == [scan[c] EXCEPT !.addressed = FALSE, !.original = v]
        IN scan' = [scan EXCEPT ![c] = IF v.io THEN Found(st, FALSE) ELSE [st EXCEPT !.pc = "ones"]]
  BY DEF ReadOriginal
<1>3. PICK base : base = [scan[c] EXCEPT !.addressed = FALSE, !.original = v]
  OBVIOUS
<1>4. v \in BarValues
  BY <1>1, ReadsType DEF ScanInv
<1>5. /\ ScanOK(base) /\ ~base.addressed /\ base.pc = "original" /\ base.at = scan[c].at
      /\ base.original = v
  BY <1>1, <1>3, <1>4 DEF ScanOK, ScanRecs, InProbe
<1>6. UNCHANGED <<arch, guarded, bus, bar, selected, stage, ctx, devices, device_count, torn>>
  BY DEF ReadOriginal, fixed, hardware, lists, history
<1>7. ~Probing(c)
  BY <1>1 DEF Probing
<1>8. CASE v.io
  <2>1. PICK st : st = Found(base, FALSE)
    OBVIOUS
  <2>2. ScanOK(st) /\ ~st.addressed /\ st.pc \in {"header", "devices"}
    BY <1>5, <2>1, FoundEffect DEF InProbe
  <2>3. scan' = [scan EXCEPT ![c] = st]
    BY <1>2, <1>3, <1>8, <2>1
  <2> QED BY <1>1, <1>6, <1>7, <2>2, <2>3, QuietStep DEF ScanInv, Types
<1>9. CASE ~v.io
  <2>1. PICK st : st = [base EXCEPT !.pc = "ones"]
    OBVIOUS
  <2>2. /\ ScanOK(st) /\ ~st.addressed /\ st.pc = "ones" /\ st.at = scan[c].at
        /\ st.original = v
    BY <1>5, <2>1 DEF ScanOK, ScanRecs, InProbe
  <2>3. scan' = [scan EXCEPT ![c] = st]
    BY <1>2, <1>3, <1>9, <2>1
  <2>4. Types' /\ Turns' /\ scan'[c] = st /\ \A d \in Contexts \ {c} : scan'[d] = scan[d]
    BY <1>1, <1>6, <2>2, <2>3, ScanStep DEF ScanInv, Types
  <2>5. Addressed'
    BY <1>1, <1>6, <2>2, <2>4, StepAddressed DEF ScanInv, Alone
  <2>6. ASSUME arch # "x86_64" \/ guarded, NEW s \in Slots \ torn PROVE BarOK(s)'
    <3>1. BarOK(s) /\ bar'[s] = bar[s] /\ bus'[s] = bus[s]
      BY <1>6, <2>6 DEF ScanInv, BarsInv
    <3>2. \A d \in Contexts \ {c} : /\ ProbesAt(d, s)' <=> ProbesAt(d, s)
                                    /\ scan'[d].original = scan[d].original
      BY <2>4 DEF ProbesAt, Probing
    <3>3. CASE s # scan[c].at
      <4>1. ~ProbesAt(c, s) /\ ~ProbesAt(c, s)'
        BY <1>7, <2>2, <2>4, <3>3 DEF ProbesAt, Probing
      <4> QED BY <3>1, <3>2, <4>1, BarFrame
    <3>4. CASE s = scan[c].at
      <4>1. v = bar[s]
        <5>1. Hit(c).at = scan[c].at /\ Hit(c).reg = "bar"
          BY <2>6, HitsOwnBar DEF ScanInv, Alone, ReadOriginal, InProbe
        <5> QED BY <1>2, <3>4, <5>1 DEF Bars
      <4>2. ProbesAt(c, s)' /\ scan'[c].original = bar[s] /\ ~ProbesAt(c, s)
        BY <1>7, <2>2, <2>4, <3>4, <4>1 DEF ProbesAt, Probing
      <4>3. Assigned(bus[s])' = Assigned(bus[s])
        BY <1>6 DEF Assigned, Wired
      <4>4. CASE c = "thread"
        <5>1. ~ProbesAt("isr", s)
          BY <1>1, <4>4 DEF ScanInv, Turns, ProbesAt, Probing, Idle
        <5>2. bar[s] = Assigned(bus[s])
          BY <3>1, <4>2, <4>4, <5>1 DEF BarOK, Contexts
        <5> QED BY <3>2, <4>2, <4>3, <4>4, <5>1, <5>2 DEF BarOK, Contexts
      <4>5. CASE c = "isr"
        <5>1. ProbesAt("thread", s)' <=> ProbesAt("thread", s)
          BY <3>2, <4>5 DEF Contexts
        <5>2. scan'["thread"].original = scan["thread"].original
          BY <3>2, <4>5 DEF Contexts
        <5>3. ~ProbesAt("thread", s) => bar[s] = Assigned(bus[s])
          BY <3>1, <4>2, <4>5 DEF BarOK, Contexts
        <5> QED BY <3>1, <4>2, <4>3, <4>5, <5>1, <5>2, <5>3 DEF BarOK, Contexts
      <4> QED BY <4>4, <4>5 DEF Contexts
    <3> QED BY <3>3, <3>4
  <2> QED BY <1>6, <2>4, <2>5, <2>6 DEF ScanInv, BarsInv
<1> QED BY <1>8, <1>9

LEMMA OnesInv == ASSUME ScanInv, NEW c \in Contexts, WriteOnes(c) PROVE ScanInv'
<1>1. ctx = c /\ scan[c].pc = "ones" /\ ScanOK(scan[c]) /\ scan[c] # Idle
  BY Running DEF WriteOnes, ScanInv
<1>2. PICK st : st = [scan[c] EXCEPT !.pc = "mask", !.addressed = FALSE]
  OBVIOUS
<1>3. scan' = [scan EXCEPT ![c] = st] /\ Write(c, Ones)
  BY <1>2 DEF WriteOnes
<1>4. /\ ScanOK(st) /\ ~st.addressed /\ st.pc = "mask" /\ st.at = scan[c].at
      /\ st.original = scan[c].original
  BY <1>1, <1>2 DEF ScanOK, ScanRecs, InProbe
<1>5. UNCHANGED <<arch, guarded, bus, selected, stage, ctx, devices, device_count, torn>>
  BY DEF WriteOnes, fixed, lists, history
<1>6. Ones \in BarValues
  BY DEF Ones, BarValues
<1>7. bar' \in [Slots -> BarValues] /\ \A s \in Slots : s # Hit(c).at => bar'[s] = bar[s]
  BY <1>1, <1>3, <1>6, WriteType DEF ScanInv
<1>8. Types' /\ Turns' /\ scan'[c] = st /\ \A d \in Contexts \ {c} : scan'[d] = scan[d]
  BY <1>1, <1>3, <1>4, <1>5, <1>7, ScanStep DEF ScanInv, Types
<1>9. Addressed'
  BY <1>1, <1>4, <1>5, <1>8, StepAddressed DEF ScanInv, Alone
<1>10. ASSUME arch # "x86_64" \/ guarded, NEW s \in Slots \ torn PROVE BarOK(s)'
  <2>1. BarOK(s) /\ bus'[s] = bus[s]
    BY <1>5, <1>10 DEF ScanInv, BarsInv
  <2>2. \A d \in Contexts : /\ ProbesAt(d, s)' <=> ProbesAt(d, s)
                            /\ ProbesAt(d, s) => scan'[d].original = scan[d].original
    BY <1>1, <1>4, <1>8 DEF ProbesAt, Probing
  <2>3. Hit(c).at = scan[c].at
    BY <1>10, HitsOwnBar DEF ScanInv, Alone, WriteOnes, InProbe
  <2>4. CASE s # scan[c].at
    BY <1>7, <2>1, <2>2, <2>3, <2>4, BarFrame
  <2>5. CASE s = scan[c].at
    <3>1. ProbesAt(c, s)
      BY <1>1, <2>5 DEF ProbesAt, Probing
    <3>2. Assigned(bus[s])' = Assigned(bus[s])
      BY <1>5 DEF Assigned, Wired
    <3>3. "thread" \in Contexts /\ "isr" \in Contexts
      BY DEF Contexts
    <3> QED BY <2>1, <2>2, <3>1, <3>2, <3>3 DEF BarOK
  <2> QED BY <2>4, <2>5
<1> QED BY <1>5, <1>8, <1>9, <1>10 DEF ScanInv, BarsInv

\* The end of a probe: the assigned value is back, unless the thread that was
\* interrupted is in the middle of a probe of the same BAR.
LEMMA RestoreInv == ASSUME ScanInv, NEW c \in Contexts, Restore(c) PROVE ScanInv'
<1>1. ctx = c /\ scan[c].pc = "restore" /\ ScanOK(scan[c]) /\ scan[c] # Idle
  BY Running DEF Restore, ScanInv
<1>2. PICK base : base = [scan[c] EXCEPT !.addressed = FALSE]
  OBVIOUS
<1>3. PICK memory \in BOOLEAN : memory = (scan[c].mask # Zero)
  OBVIOUS
<1>4. PICK st : st = Found(base, memory)
  OBVIOUS
<1>5. scan' = [scan EXCEPT ![c] = st] /\ Write(c, scan[c].original)
  BY <1>2, <1>3, <1>4 DEF Restore
<1>6. ScanOK(base) /\ ~base.addressed /\ base.pc = "restore"
  BY <1>1, <1>2 DEF ScanOK, ScanRecs, InProbe
<1>7. ScanOK(st) /\ ~st.addressed /\ st.pc \in {"header", "devices"}
  BY <1>3, <1>4, <1>6, FoundEffect DEF InProbe
<1>8. UNCHANGED <<arch, guarded, bus, selected, stage, ctx, devices, device_count, torn>>
  BY DEF Restore, fixed, lists, history
<1>9. scan[c].original \in BarValues
  BY <1>1 DEF ScanOK, ScanRecs
<1>10. /\ bar' \in [Slots -> BarValues]
       /\ \A s \in Slots : s # Hit(c).at => bar'[s] = bar[s]
       /\ Hit(c).reg = "bar" => bar'[Hit(c).at] = Wired(bus[Hit(c).at], scan[c].original)
  BY <1>1, <1>5, <1>9, WriteType DEF ScanInv
<1>11. Types' /\ Turns' /\ scan'[c] = st /\ \A d \in Contexts \ {c} : scan'[d] = scan[d]
  BY <1>1, <1>5, <1>7, <1>8, <1>10, ScanStep DEF ScanInv, Types
<1>12. Addressed'
  BY <1>1, <1>7, <1>8, <1>11, StepAddressed DEF ScanInv, Alone
<1>13. ASSUME arch # "x86_64" \/ guarded, NEW s \in Slots \ torn PROVE BarOK(s)'
  <2>1. BarOK(s) /\ bus'[s] = bus[s] /\ Assigned(bus[s])' = Assigned(bus[s])
    BY <1>8, <1>13 DEF ScanInv, BarsInv, Assigned, Wired
  <2>2. \A d \in Contexts \ {c} : /\ ProbesAt(d, s)' <=> ProbesAt(d, s)
                                  /\ scan'[d].original = scan[d].original
    BY <1>11 DEF ProbesAt, Probing
  <2>3. Hit(c).at = scan[c].at /\ Hit(c).reg = "bar"
    BY <1>13, HitsOwnBar DEF ScanInv, Alone, Restore, InProbe
  <2>4. ~ProbesAt(c, s)'
    BY <1>7, <1>11 DEF ProbesAt, Probing
  <2>5. CASE s # scan[c].at
    <3>1. ~ProbesAt(c, s) /\ bar'[s] = bar[s]
      BY <1>10, <2>3, <2>5 DEF ProbesAt
    <3> QED BY <2>1, <2>2, <2>4, <3>1, BarFrame
  <2>6. CASE s = scan[c].at
    <3>1. ProbesAt(c, s)
      BY <1>1, <2>6 DEF ProbesAt, Probing
    <3>2. bar'[s] = Wired(bus[s], scan[c].original)
      BY <1>10, <2>3, <2>6
    <3>3. scan[c].original = Assigned(bus[s]) => bar'[s] = Assigned(bus[s])
      BY <1>9, <3>2, BarTypes DEF ScanInv, Types
    <3>4. CASE c = "thread"
      <4>1. scan[c].original = Assigned(bus[s])
        BY <2>1, <3>1, <3>4 DEF BarOK
      <4>2. ~ProbesAt("isr", s)
        BY <1>1, <3>4 DEF ScanInv, Turns, ProbesAt, Probing, Idle
      <4>3. ~ProbesAt("isr", s)'
        BY <2>2, <3>4, <4>2 DEF Contexts
      <4> QED BY <2>1, <2>4, <3>3, <3>4, <4>1, <4>3 DEF BarOK
    <3>5. CASE c = "isr"
      <4>1. ProbesAt("thread", s)' <=> ProbesAt("thread", s)
        BY <2>2, <3>5 DEF Contexts
      <4>2. scan'["thread"].original = scan["thread"].original
        BY <2>2, <3>5 DEF Contexts
      <4>3. ~ProbesAt("thread", s) => scan[c].original = Assigned(bus[s])
        BY <2>1, <3>1, <3>5 DEF BarOK
      <4> QED BY <2>1, <2>4, <3>3, <3>5, <4>1, <4>2, <4>3 DEF BarOK, Contexts
    <3> QED BY <3>4, <3>5 DEF Contexts
  <2> QED BY <2>5, <2>6
<1> QED BY <1>8, <1>11, <1>12, <1>13 DEF ScanInv, BarsInv

LEMMA PaddedType ==
  ASSUME NEW list \in Seq(Made)
  PROVE  /\ Padded(list) \in [1..MaxCompute -> Entries]
         /\ \A i \in 1..MaxCompute : Padded(list)[i].device_index = 0
         /\ \A i \in 1..MaxCompute : i <= Len(list) => Padded(list)[i] = list[i]
<1>1. \A i \in 1..Len(list) : list[i] \in Made
  BY ElementOfSeq
<1>2. Made \subseteq Entries /\ ZeroEntry \in Entries /\ ZeroEntry.device_index = 0
  BY DiscoveryConstants DEF Made, Entries, AccKinds, ZeroEntry, Entry
<1>3. Len(list) \in Nat
  BY LenProperties
<1>4. \A i \in 1..MaxCompute : i <= Len(list) => i \in 1..Len(list)
  BY <1>3, DiscoveryConstants
<1>5. \A i \in 1..MaxCompute : /\ Padded(list)[i] = IF i <= Len(list) THEN list[i] ELSE ZeroEntry
                               /\ Padded(list)[i] \in Entries
  BY <1>1, <1>2, <1>4 DEF Padded
<1>6. \A i \in 1..MaxCompute : Padded(list)[i].device_index = 0
  BY <1>1, <1>2, <1>4, <1>5 DEF Made
<1>7. Padded(list) \in [1..MaxCompute -> Entries]
  BY <1>5 DEF Padded
<1> QED BY <1>5, <1>6, <1>7

LEMMA DevicesInv == ASSUME ScanInv, NEW c \in Contexts, ReplaceDevices(c) PROVE ScanInv'
<1>1. ctx = c /\ scan[c].pc = "devices" /\ ScanOK(scan[c]) /\ scan[c] # Idle
  BY DEF ReplaceDevices, ScanInv, Types, Idle
<1>2. scan[c].list \in Seq(Made) /\ Len(scan[c].list) <= MaxCompute /\ Len(scan[c].list) \in Nat
  BY <1>1, LenProperties DEF ScanOK, ScanRecs
<1>3. ~(Len(scan[c].list) > MaxCompute)
  BY <1>2, DiscoveryConstants
<1>4. PICK st : st = [scan[c] EXCEPT !.pc = "count"]
  OBVIOUS
<1>5. /\ scan' = [scan EXCEPT ![c] = st] /\ devices' = Padded(scan[c].list)
      /\ UNCHANGED <<arch, guarded, bus, bar, selected, stage, ctx, device_count, torn>>
  BY <1>3, <1>4 DEF ReplaceDevices, fixed, hardware, history
<1>6. ScanOK(st) /\ st.pc = "count" /\ st.addressed = scan[c].addressed
  BY <1>1, <1>4 DEF ScanOK, ScanRecs, InProbe
<1>7. ~Probing(c) /\ st.pc \notin {"ones", "mask", "restore"}
  BY <1>1, <1>6 DEF Probing
<1>8. devices' \in [1..MaxCompute -> Entries]
      /\ \A i \in 1..MaxCompute : devices'[i].device_index = 0
  BY <1>2, <1>5, PaddedType
<1>9. Types' /\ Turns' /\ scan'[c] = st /\ \A d \in Contexts \ {c} : scan'[d] = scan[d]
  BY <1>1, <1>5, <1>6, <1>8, ScanStep DEF ScanInv, Types
<1>10. BarsInv'
  BY <1>5, <1>7, <1>9, QuietBars DEF ScanInv
<1>11. Addressed'
  <2>1. Wanted(c)' = Wanted(c)
    <3>1. st.at = scan[c].at
      BY <1>1, <1>4 DEF ScanOK, ScanRecs
    <3> QED BY <1>1, <1>6, <1>9, <3>1 DEF Wanted
  <2>2. Alone => \A d \in Contexts : d # c => scan'[d] = Idle
    BY <1>1, <1>9, OtherIdle DEF ScanInv
  <2>3. Alone' => Alone
    BY <1>5 DEF Alone
  <2> QED BY <1>1, <1>5, <1>6, <1>9, <2>1, <2>2, <2>3 DEF Addressed, ScanInv
<1> QED BY <1>9, <1>10, <1>11 DEF ScanInv

LEMMA CountInv == ASSUME ScanInv, NEW c \in Contexts, ReplaceCount(c) PROVE ScanInv'
<1>1. ctx = c /\ scan[c].pc = "count" /\ ScanOK(scan[c]) /\ scan[c] # Idle
  BY DEF ReplaceCount, ScanInv, Types, Idle
<1>2. Len(scan[c].list) \in 0..MaxCompute
  BY <1>1, LenProperties, DiscoveryConstants DEF ScanOK, ScanRecs
<1>3. /\ scan' = [scan EXCEPT ![c] = Idle] /\ device_count' = Len(scan[c].list)
      /\ stage' = IF stage = "compute" THEN "power" ELSE stage
      /\ UNCHANGED <<arch, guarded, bus, bar, selected, ctx, devices, torn>>
  BY DEF ReplaceCount, fixed, hardware, history
<1>4. ~Probing(c) /\ Idle.pc \notin {"ones", "mask", "restore"}
  BY <1>1 DEF Probing, Idle
<1> QED BY <1>1, <1>2, <1>3, <1>4, QuietStep DEF ScanInv, Types

LEMMA NewScanOK == ScanOK(NewScan) /\ NewScan # Idle /\ ~NewScan.addressed /\ NewScan.pc = "header"
<1>1. Zero \in BarValues /\ <<>> \in Seq(Made) /\ Len(<<>>) = 0 /\ Blank \in Headers
  BY DEF Zero, BarValues, Blank, Headers
<1>2. NewScan \in ScanRecs
  BY <1>1, DiscoveryConstants DEF NewScan, ScanRecs
<1> QED BY <1>1, <1>2, DiscoveryConstants DEF NewScan, ScanOK, InProbe, Idle

LEMMA RescanInv == ASSUME ScanInv, NEW c \in Contexts, rescan(c) PROVE ScanInv'
<1>1. /\ stage = "kernel" /\ ctx = c /\ scan[c] = Idle /\ scan' = [scan EXCEPT ![c] = NewScan]
      /\ UNCHANGED <<arch, guarded, bus, bar, selected, stage, ctx, devices, device_count, torn>>
  BY DEF rescan, fixed, hardware, lists
<1>2. ~Probing(c) /\ NewScan.pc \notin {"ones", "mask", "restore"}
  BY <1>1, NewScanOK DEF Probing, Idle
<1> QED BY <1>1, <1>2, NewScanOK, QuietStep DEF ScanInv, Types

\* Steps that leave the hardware and the scans alone.
LEMMA StillInv ==
  ASSUME ScanInv, Types', Turns', stage = "kernel" => stage' = "kernel",
         UNCHANGED <<arch, guarded, bus, bar, selected, scan, torn>>
  PROVE  ScanInv'
<1>1. Addressed'
  BY DEF ScanInv, Addressed, Wanted, Alone
<1>2. BarsInv'
  BY DEF ScanInv, BarsInv, BarOK, ProbesAt, Probing, Assigned, Wired
<1> QED BY <1>1, <1>2 DEF ScanInv

LEMMA BootStepsInv == ASSUME ScanInv, PowerThermalNew \/ built_hardware_manifest PROVE ScanInv'
<1>1. /\ stage \in {"power", "manifest"} /\ stage' \in {"manifest", "kernel"}
      /\ UNCHANGED <<arch, guarded, bus, bar, selected, ctx, scan, devices, device_count, torn>>
  BY DEF PowerThermalNew, built_hardware_manifest, fixed, hardware, history
<1>2. Types' /\ Turns'
  BY <1>1 DEF ScanInv, Types, Turns, ScanOK
<1> QED BY <1>1, <1>2, StillInv

LEMMA TurnsInv == ASSUME ScanInv, Interrupt \/ Return PROVE ScanInv'
<1>1. UNCHANGED <<arch, guarded, bus, bar, selected, stage, scan, devices, device_count, torn>>
  BY DEF Interrupt, Return, fixed, hardware, lists, history
<1>2. Types'
  BY <1>1 DEF Interrupt, Return, ScanInv, Types, Contexts, ScanOK
<1>3. Turns'
  BY <1>1 DEF Interrupt, Return, ScanInv, Turns
<1> QED BY <1>1, <1>2, <1>3, StillInv

LEMMA PlugInv ==
  ASSUME ScanInv, NEW s \in Slots, NEW card \in Cards \cup {Absent}, Plug(s, card)
  PROVE  ScanInv'
<1>1. /\ bus' = [bus EXCEPT ![s] = card] /\ bar' = [bar EXCEPT ![s] = Assigned(card)]
      /\ torn' = IF \E c \in Contexts : ProbesAt(c, s) THEN torn \cup {s} ELSE torn
      /\ UNCHANGED <<arch, guarded, selected, stage, ctx, scan, devices, device_count>>
  BY DEF Plug, ProbesAt, fixed, lists
<1>2. Assigned(card) \in BarValues
  BY AssignedType
<1>3. Types' /\ Turns'
  BY <1>1, <1>2 DEF ScanInv, Types, Turns, ScanOK
<1>4. Addressed'
  BY <1>1 DEF ScanInv, Addressed, Wanted, Alone
<1>5. ASSUME arch # "x86_64" \/ guarded, NEW t \in Slots \ torn' PROVE BarOK(t)'
  <2>1. t \in Slots \ torn
    BY <1>1, <1>5
  <2>2. \A c \in Contexts : ProbesAt(c, t)' <=> ProbesAt(c, t)
    BY <1>1 DEF ProbesAt, Probing
  <2>3. CASE t # s
    <3>1. bar'[t] = bar[t] /\ bus'[t] = bus[t]
      BY <1>1, <2>3 DEF ScanInv, Types
    <3>2. \A c \in Contexts : scan'[c].original = scan[c].original
      BY <1>1
    <3> QED BY <1>5, <2>1, <2>2, <3>1, <3>2, BarFrame DEF ScanInv, BarsInv
  <2>4. CASE t = s
    <3>1. \A c \in Contexts : ~ProbesAt(c, s)
      BY <1>1, <1>5, <2>4
    <3>2. bar'[s] = Assigned(card) /\ bus'[s] = card
      BY <1>1 DEF ScanInv, Types
    <3>3. Assigned(bus[s])' = Assigned(card)
      BY <3>2 DEF Assigned, Wired
    <3>4. "thread" \in Contexts /\ "isr" \in Contexts
      BY DEF Contexts
    <3> QED BY <2>2, <2>4, <3>1, <3>2, <3>3, <3>4 DEF BarOK
  <2> QED BY <2>3, <2>4
<1> QED BY <1>1, <1>3, <1>4, <1>5 DEF ScanInv, BarsInv

LEMMA InitScanInv == Init => ScanInv
<1> SUFFICES ASSUME Init PROVE ScanInv
  OBVIOUS
<1>1. /\ arch \in {"x86_64", "arm64", "riscv64"} /\ guarded \in BOOLEAN
      /\ bus \in [Slots -> Cards \cup {Absent}]
  BY DiscoveryAssumption DEF Init, Slots
<1>2. \A card \in Cards \cup {Absent} : Assigned(card) \in BarValues
  BY AssignedType
<1>3. /\ bar = [s \in Slots |-> Assigned(bus[s])] /\ selected = Register(0, "vendor")
      /\ stage = "compute" /\ ctx = "thread" /\ device_count = 0 /\ devices = Padded(<<>>)
      /\ scan = [c \in Contexts |-> IF c = "thread" THEN NewScan ELSE Idle]
  BY DEF Init
<1>4. bar \in [Slots -> BarValues]
  BY <1>1, <1>2, <1>3
<1>5. selected \in Registers
  BY <1>3, DiscoveryConstants DEF Register, Registers
<1>6. scan["thread"] = NewScan /\ scan["isr"] = Idle
      /\ scan \in [Contexts -> ScanRecs \cup {Idle}]
  BY <1>3, NewScanOK DEF Contexts, ScanOK
<1>7. devices \in [1..MaxCompute -> Entries]
      /\ \A i \in 1..MaxCompute : devices[i].device_index = 0
  <2>1. <<>> \in Seq(Made)
    OBVIOUS
  <2> QED BY <1>3, <2>1, PaddedType
<1>8. Types
  BY <1>1, <1>3, <1>4, <1>5, <1>6, <1>7, NewScanOK, DiscoveryConstants DEF Types, Contexts
<1>9. Turns /\ Addressed
  BY <1>3, <1>6, NewScanOK DEF Turns, Addressed, Contexts
<1>10. \A s \in Slots : BarOK(s)
  <2>1. ~Probing("thread") /\ ~Probing("isr")
    BY <1>6, NewScanOK DEF Probing, Idle
  <2> QED BY <1>3, <2>1 DEF BarOK, ProbesAt
<1> QED BY <1>8, <1>9, <1>10 DEF ScanInv, BarsInv

LEMMA NextScanInv == ScanInv /\ [Next]_vars => ScanInv'
<1> SUFFICES ASSUME ScanInv, [Next]_vars PROVE ScanInv'
  OBVIOUS
<1>1. CASE UNCHANGED vars
  <2>1. UNCHANGED <<arch, guarded, bus, bar, selected, stage, ctx, scan, devices, device_count, torn>>
    BY <1>1 DEF vars, fixed, hardware, lists, history
  <2>2. Types' /\ Turns'
    BY <2>1 DEF ScanInv, Types, Turns, ScanOK
  <2> QED BY <2>1, <2>2, StillInv
<1>2. CASE \E c \in Contexts : Step(c) \/ rescan(c)
  BY <1>2, SelectInv, HeaderInv, OriginalInv, OnesInv, MaskInv, RestoreInv, DevicesInv, CountInv,
     RescanInv DEF Step
<1>3. CASE PowerThermalNew \/ built_hardware_manifest \/ Interrupt \/ Return
  BY <1>3, BootStepsInv, TurnsInv
<1>4. CASE \E s \in Slots, card \in Cards \cup {Absent} : Plug(s, card)
  BY <1>4, PlugInv
<1> QED BY <1>1, <1>2, <1>3, <1>4 DEF Next

LEMMA ScanInvBars == ScanInv => BarsRestored
BY DEF ScanInv, BarsInv, BarOK, ProbesAt, BarsRestored

----------------------------------------------------------------------------
(***************************************************************************)
(* The list a scan makes, against what the bus holds.                      *)
(***************************************************************************)
Total == NDevices * NFunctions

Below(n) == {s \in VisibleSlots : s < n}
Place(s) == Cardinality({t \in VisibleSlots : t <= s})

\* The list names the accelerators below n, each at its place.
Lists(list, n) ==
  /\ Len(list) = Cardinality(Below(n))
  /\ \A i \in 1..Len(list) : \E s \in Below(n) : Place(s) = i /\ list[i] = EntryOf(s)

\* A list that is complete, or full.
Complete(list) ==
  \E n \in 0..Total : Lists(list, n) /\ (n = Total \/ Len(list) = MaxCompute)

MultiAt(s) == bus[FirstOf(s)] # Absent /\ bus[FirstOf(s)].multi
FunctionsOf(s) == IF MultiAt(s) THEN NFunctions ELSE 1

LEMMA TotalType == Total \in Nat /\ Slots = 0..(Total - 1)
<1>1. NDevices * NFunctions \in Nat
  BY DiscoveryConstants
<1> QED BY <1>1 DEF Total, Slots

\* A remainder, once the quotient is known.
LEMMA Division ==
  ASSUME NEW q \in Nat, NEW d \in Nat \ {0}, NEW t \in Nat, q * d <= t, t < q * d + d
  PROVE  t % d = t - q * d
<1> DEFINE p == t \div d
           r == t % d
<1>1. p \in Nat /\ r \in 0..(d - 1) /\ t = p * d + r
  BY DivMod
<1> HIDE DEF p, r
<1>2. ASSUME p < q PROVE FALSE
  <2>1. (p + 1) * d <= q * d /\ (p + 1) * d = p * d + d /\ p * d \in Nat /\ q * d \in Nat
    BY <1>1, <1>2, Multiples
  <2> QED BY <1>1, <2>1
<1>3. ASSUME q < p PROVE FALSE
  <2>1. (q + 1) * d <= p * d /\ (q + 1) * d = q * d + d /\ p * d \in Nat /\ q * d \in Nat
    BY <1>1, <1>3, Multiples
  <2> QED BY <1>1, <2>1
<1>4. p = q
  BY <1>1, <1>2, <1>3
<1>5. q * d \in Nat
  BY Multiples
<1>6. r = t - q * d
  BY <1>1, <1>4, <1>5
<1> QED BY <1>6 DEF r

\* A slot is in a block of NFunctions slots that starts at a multiple of it.
LEMMA Block ==
  ASSUME NEW s \in Nat
  PROVE  /\ Function(s) \in 0..(NFunctions - 1) /\ FirstOf(s) \in Nat
         /\ s = FirstOf(s) + Function(s)
         /\ \A t \in Nat : FirstOf(s) <= t /\ t < FirstOf(s) + NFunctions
                             => FirstOf(t) = FirstOf(s) /\ Function(t) = t - FirstOf(s)
         /\ Function(FirstOf(s) + NFunctions) = 0
<1>0. NFunctions \in Nat \ {0}
  BY DiscoveryConstants
<1>1. PICK q \in Nat : s % NFunctions \in 0..(NFunctions - 1) /\ s = q * NFunctions + (s % NFunctions)
  <2>1. s \div NFunctions \in Nat /\ s % NFunctions \in 0..(NFunctions - 1)
        /\ s = (s \div NFunctions) * NFunctions + (s % NFunctions)
    BY <1>0, DivMod
  <2> QED BY <2>1
<1>2. q * NFunctions \in Nat /\ FirstOf(s) = q * NFunctions /\ Function(s) = s % NFunctions
  <2>1. q * NFunctions \in Nat
    BY <1>0, Multiples
  <2>2. PICK r \in Nat : r = s % NFunctions
    BY <1>0, <1>1
  <2> QED BY <1>1, <2>1, <2>2 DEF FirstOf, Function
<1>3. ASSUME NEW t \in Nat, FirstOf(s) <= t, t < FirstOf(s) + NFunctions
      PROVE  FirstOf(t) = FirstOf(s) /\ Function(t) = t - FirstOf(s)
  <2>1. t % NFunctions = t - q * NFunctions
    BY <1>0, <1>2, <1>3, Division
  <2> QED BY <1>2, <2>1 DEF FirstOf, Function
<1>4. Function(FirstOf(s) + NFunctions) = 0
  <2>1. (q + 1) * NFunctions = q * NFunctions + NFunctions
    BY <1>0
  <2>2. PICK t \in Nat : t = q * NFunctions + NFunctions
    BY <1>0, <1>2
  <2>3. t % NFunctions = t - (q + 1) * NFunctions
    BY <1>0, <1>2, <2>1, <2>2, Division
  <2> QED BY <1>0, <1>2, <2>1, <2>2, <2>3 DEF Function
<1>5. Function(s) \in 0..(NFunctions - 1) /\ s = FirstOf(s) + Function(s) /\ FirstOf(s) \in Nat
  BY <1>1, <1>2
<1> QED BY <1>3, <1>4, <1>5

\* What Advance passes over is not visible, and where it arrives it knows how
\* many functions the device has.
LEMMA AdvanceBelow ==
  ASSUME NEW st \in ScanRecs, st.functions = FunctionsOf(st.at)
  PROVE  /\ Advance(st).pc = "header" =>
              /\ \A s \in VisibleSlots : s < Advance(st).at <=> s <= st.at
              /\ Function(Advance(st).at) # 0 => MultiAt(Advance(st).at) /\ Advance(st).known
              /\ Advance(st).known => Advance(st).functions = FunctionsOf(Advance(st).at)
         /\ Advance(st).pc = "devices" => \A s \in VisibleSlots : s <= st.at
<1>1. PICK a \in Slots : a = st.at
  BY DEF ScanRecs
<1>2. PICK f : f = st.functions
  OBVIOUS
<1>3. PICK next : next = IF Function(a) + 1 < f THEN a + 1 ELSE FirstOf(a) + NFunctions
  OBVIOUS
<1>11. PICK known \in BOOLEAN : known = (Function(next) # 0)
  OBVIOUS
<1>4. Advance(st) = IF next \in Slots THEN [st EXCEPT !.pc = "header", !.at = next, !.known = known]
                    ELSE [st EXCEPT !.pc = "devices"]
  BY <1>1, <1>2, <1>3, <1>11 DEF Advance
<1>0. NFunctions \in Nat \ {0} /\ a \in Nat /\ Slots = 0..(Total - 1) /\ Total \in Nat
  BY DiscoveryConstants, TotalType
<1>5. /\ Function(a) \in 0..(NFunctions - 1) /\ FirstOf(a) \in Nat /\ a = FirstOf(a) + Function(a)
      /\ \A t \in Nat : FirstOf(a) <= t /\ t < FirstOf(a) + NFunctions
                          => FirstOf(t) = FirstOf(a) /\ Function(t) = t - FirstOf(a)
      /\ Function(FirstOf(a) + NFunctions) = 0
  BY <1>0, Block
<1>6. f = FunctionsOf(a)
  BY <1>1, <1>2
<1>7. /\ next \in Nat /\ a < next
      /\ \A s \in VisibleSlots : s < next => s <= a
      /\ Function(next) # 0 => MultiAt(next) /\ f = FunctionsOf(next)
  <2>1. CASE Function(a) + 1 < f
    <3>1. f = NFunctions /\ MultiAt(a)
      BY <1>0, <1>5, <1>6, <2>1 DEF FunctionsOf
    <3>2. next = a + 1 /\ next \in Nat
      BY <1>0, <1>3, <2>1
    <3>3. FirstOf(next) = FirstOf(a)
      BY <1>0, <1>5, <2>1, <3>1, <3>2
    <3>4. MultiAt(next) /\ f = FunctionsOf(next)
      BY <1>6, <3>1, <3>3 DEF MultiAt, FunctionsOf
    <3>5. \A s \in VisibleSlots : s < next => s <= a
      BY <1>0, <3>2 DEF VisibleSlots
    <3> QED BY <1>0, <3>2, <3>4, <3>5
  <2>2. CASE ~(Function(a) + 1 < f)
    <3>1. next = FirstOf(a) + NFunctions
      BY <1>3, <2>2
    <3>2. ASSUME NEW s \in VisibleSlots, s < next, ~(s <= a) PROVE FALSE
      <4>1. s \in Nat /\ Visible(s)
        BY <1>0, <3>2 DEF VisibleSlots
      <4>2. FirstOf(s) = FirstOf(a) /\ Function(s) = s - FirstOf(a)
        BY <1>0, <1>5, <3>1, <3>2, <4>1
      <4>3. Function(s) # 0
        BY <1>0, <1>5, <3>2, <4>1, <4>2
      <4>4. MultiAt(a)
        BY <4>1, <4>2, <4>3 DEF Visible, MultiAt
      <4>5. f = NFunctions
        BY <1>6, <4>4 DEF FunctionsOf
      <4> QED BY <1>0, <1>5, <2>2, <3>1, <3>2, <4>1, <4>5
    <3> QED BY <1>0, <1>5, <3>1, <3>2
  <2> QED BY <2>1, <2>2
<1>8. \A s \in VisibleSlots : s \in Nat /\ (s < next <=> s <= a) /\ s < Total
  BY <1>0, <1>7 DEF VisibleSlots
<1>9. CASE next \in Slots
  <2>1. /\ Advance(st).at = next /\ Advance(st).functions = f /\ Advance(st).pc = "header"
        /\ Advance(st).known = known
    BY <1>2, <1>4, <1>9 DEF ScanRecs
  <2>2. /\ Function(next) # 0 => MultiAt(next) /\ known
        /\ known => f = FunctionsOf(next)
    BY <1>7, <1>11
  <2> QED BY <1>1, <1>8, <2>1, <2>2
<1>10. CASE next \notin Slots
  <2>1. Advance(st).pc = "devices"
    BY <1>4, <1>10 DEF ScanRecs
  <2>2. next >= Total
    BY <1>0, <1>7, <1>10
  <2>3. \A s \in VisibleSlots : s <= a
    BY <1>0, <1>7, <1>8, <2>2
  <2> QED BY <1>1, <2>1, <2>3
<1> QED BY <1>9, <1>10

LEMMA VisibleFinite ==
  ASSUME NEW V \in SUBSET VisibleSlots
  PROVE  IsFiniteSet(V) /\ Cardinality(V) \in Nat /\ Cardinality(V) <= Cardinality(VisibleSlots)
<1>1. Slots = 0..(Total - 1) /\ Total - 1 \in Int
  BY TotalType
<1>2. IsFiniteSet(Slots)
  BY <1>1, FS_Interval
<1>3. IsFiniteSet(VisibleSlots)
  BY <1>2, FS_Subset DEF VisibleSlots
<1>4. IsFiniteSet(V) /\ Cardinality(V) <= Cardinality(VisibleSlots)
  BY <1>3, FS_Subset
<1> QED BY <1>4, FS_CardinalityType

LEMMA ListsSame ==
  ASSUME NEW list, NEW a, NEW n, Lists(list, a), Below(n) = Below(a)
  PROVE  Lists(list, n)
BY DEF Lists

\* The next accelerator of the bus comes next in the list.
LEMMA ListsAppend ==
  ASSUME NEW list \in Seq(Made), NEW a \in VisibleSlots, NEW n, Lists(list, a),
         EntryOf(a) \in Made, \A s \in VisibleSlots : s < n <=> s <= a
  PROVE  Lists(Append(list, EntryOf(a)), n)
<1>1. PICK e : e = EntryOf(a)
  OBVIOUS
<1>2. PICK more : more = Append(list, e)
  OBVIOUS
<1>3. /\ Len(more) = Len(list) + 1 /\ more[Len(list) + 1] = e /\ Len(list) \in Nat
      /\ \A i \in 1..Len(list) : more[i] = list[i]
  BY <1>1, <1>2, AppendProperties, LenProperties
<1>4. \A s \in VisibleSlots : s \in Nat
  BY DiscoveryConstants DEF VisibleSlots
<1>5. Below(n) = Below(a) \cup {a} /\ a \notin Below(a)
  BY <1>4 DEF Below
<1>6. IsFiniteSet(Below(a))
  BY VisibleFinite DEF Below
<1>7. Cardinality(Below(n)) = Len(list) + 1
  <2>1. Cardinality(Below(a) \cup {a}) = Cardinality(Below(a)) + 1
    BY <1>5, <1>6, FS_AddElement
  <2> QED BY <1>5, <2>1 DEF Lists
<1>8. Place(a) = Len(list) + 1
  <2>1. {t \in VisibleSlots : t <= a} = Below(n)
    BY DEF Below
  <2> QED BY <1>7, <2>1 DEF Place
<1>9. ASSUME NEW i \in 1..Len(more)
      PROVE  \E s \in Below(n) : Place(s) = i /\ more[i] = EntryOf(s)
  <2>1. CASE i \in 1..Len(list)
    BY <1>3, <1>5, <2>1 DEF Lists
  <2>2. CASE i = Len(list) + 1
    BY <1>1, <1>3, <1>5, <1>8, <2>2
  <2>3. i \in 1..Len(list) \/ i = Len(list) + 1
    BY <1>3
  <2> QED BY <2>1, <2>2, <2>3
<1>10. Lists(more, n)
  BY <1>3, <1>7, <1>9 DEF Lists
<1> QED BY <1>1, <1>2, <1>10

\* No two accelerators have the same place.
LEMMA PlaceUnique ==
  ASSUME NEW s \in VisibleSlots, NEW t \in VisibleSlots, Place(s) = Place(t)
  PROVE  s = t
<1>1. \A x \in VisibleSlots : x \in Nat
  BY DiscoveryConstants DEF VisibleSlots
<1>2. ASSUME NEW x \in VisibleSlots, NEW y \in VisibleSlots, x < y, Place(x) = Place(y)
      PROVE  FALSE
  <2>1. PICK X : X = {u \in VisibleSlots : u <= x}
    OBVIOUS
  <2>2. PICK Y : Y = {u \in VisibleSlots : u <= y}
    OBVIOUS
  <2>3. X \in SUBSET Y /\ y \in Y /\ y \notin X
    BY <1>1, <1>2, <2>1, <2>2
  <2>4. IsFiniteSet(Y) /\ Cardinality(Y) = Cardinality(X)
    BY <1>2, <2>1, <2>2, VisibleFinite DEF Place
  <2> QED BY <2>3, <2>4, FS_Subset
<1> QED BY <1>1, <1>2

LEMMA CompleteIsAccelerators ==
  ASSUME NEW list \in Seq(Made), Complete(list), Len(list) <= MaxCompute
  PROVE  list = Accelerators
<1>1. PICK n \in 0..Total : Lists(list, n) /\ (n = Total \/ Len(list) = MaxCompute)
  BY DEF Complete
<1>2. PICK count \in Nat : count = Cardinality(VisibleSlots)
  BY VisibleFinite
<1>3. Len(list) \in Nat /\ Len(list) <= count
  BY <1>1, <1>2, VisibleFinite, LenProperties DEF Lists, Below
<1>4. n = Total => Len(list) = count
  <2>1. n = Total => Below(n) = VisibleSlots
    BY TotalType DEF Below, VisibleSlots
  <2> QED BY <1>1, <1>2, <2>1 DEF Lists
<1>5. Len(list) = IF count < MaxCompute THEN count ELSE MaxCompute
  BY <1>1, <1>3, <1>4, DiscoveryConstants
<1>6. Accelerators = [i \in 1..Len(list) |->
                        EntryOf(CHOOSE s \in VisibleSlots :
                                  Cardinality({t \in VisibleSlots : t <= s}) = i)]
  BY <1>2, <1>5 DEF Accelerators
<1>7. ASSUME NEW i \in 1..Len(list)
      PROVE  list[i] = EntryOf(CHOOSE s \in VisibleSlots :
                                 Cardinality({t \in VisibleSlots : t <= s}) = i)
  <2>1. PICK s \in VisibleSlots : Place(s) = i /\ list[i] = EntryOf(s)
    BY <1>1, <1>7 DEF Lists, Below
  <2>2. PICK u : u = CHOOSE x \in VisibleSlots :
                       Cardinality({t \in VisibleSlots : t <= x}) = i
    OBVIOUS
  <2>3. u \in VisibleSlots /\ Place(u) = i
    BY <2>1, <2>2 DEF Place
  <2>4. u = s
    BY <2>1, <2>3, PlaceUnique
  <2> QED BY <2>1, <2>2, <2>4
<1>8. list = [i \in 1..Len(list) |-> list[i]]
  BY LenProperties
<1> QED BY <1>6, <1>7, <1>8

\* What a scan knows of a bus that stays as it is: the accelerators below its
\* place, how many functions the device has, the dwords it has read, and what it
\* probes.
SeesBus(st) ==
  /\ st.pc \in {"header"} \cup InProbe => Lists(st.list, st.at)
  /\ st.pc = "header" =>
       /\ Function(st.at) # 0 => MultiAt(st.at) /\ st.known
       /\ st.known => st.functions = FunctionsOf(st.at)
       /\ st.reg # "vendor" => bus[st.at] # Absent /\ st.header.vendor = bus[st.at].vendor
       /\ st.reg = "multi" => st.header.class = bus[st.at].class
  /\ st.pc \in InProbe => /\ Visible(st.at) /\ st.functions = FunctionsOf(st.at)
                          /\ st.kind = classify_pci_device(bus[st.at])
  /\ st.pc \in {"ones", "mask", "restore"} => bus[st.at].bar # "io"
  /\ st.pc = "restore" => st.mask = Wired(bus[st.at], Ones)
  /\ st.pc \in {"devices", "count"} => Complete(st.list)

SeesMask(st) == st.pc = "mask" => bar[st.at] = Wired(bus[st.at], Ones)

LEMMA BusFrame ==
  ASSUME UNCHANGED bus, NEW st, SeesBus(st)
  PROVE  SeesBus(st)'
<1>1. \A s : /\ Visible(s)' <=> Visible(s)
             /\ MultiAt(s)' <=> MultiAt(s)
             /\ EntryOf(s)' = EntryOf(s)
  BY DEF Visible, MultiAt, EntryOf, FirstOf, Function
<1>2. \A s : FunctionsOf(s)' = FunctionsOf(s)
  BY <1>1 DEF FunctionsOf
<1>3. VisibleSlots' = VisibleSlots
  BY <1>1 DEF VisibleSlots, Slots
<1>4. (\A n : Below(n)' = Below(n)) /\ (\A s : Place(s)' = Place(s))
  BY <1>3 DEF Below, Place
<1>5. \A list, n : Lists(list, n)' <=> Lists(list, n)
  BY <1>1, <1>4 DEF Lists
<1>6. \A list : Complete(list)' <=> Complete(list)
  BY <1>5 DEF Complete, Total
<1> QED BY <1>1, <1>2, <1>5, <1>6 DEF SeesBus, Wired

LEMMA AdvanceSees ==
  ASSUME NEW st \in ScanRecs, st.reg = "vendor", st.functions = FunctionsOf(st.at),
         \A n \in Nat : (\A s \in VisibleSlots : s < n <=> s <= st.at) => Lists(st.list, n)
  PROVE  SeesBus(Advance(st))
<1>1. PICK adv : adv = Advance(st)
  OBVIOUS
<1>2. adv \in ScanRecs /\ adv.pc \in {"header", "devices"} /\ adv.list = st.list
      /\ adv.reg = "vendor"
  BY <1>1, AdvanceEffect
<1>3. CASE adv.pc = "header"
  <2>1. /\ \A s \in VisibleSlots : s < adv.at <=> s <= st.at
        /\ Function(adv.at) # 0 => MultiAt(adv.at) /\ adv.known
        /\ adv.known => adv.functions = FunctionsOf(adv.at)
    BY <1>1, <1>3, AdvanceBelow
  <2>2. adv.at \in Nat
    BY <1>2, DiscoveryConstants DEF ScanRecs
  <2>3. Lists(adv.list, adv.at)
    BY <1>2, <2>1, <2>2
  <2>4. SeesBus(adv)
    BY <1>2, <1>3, <2>1, <2>3 DEF SeesBus, InProbe
  <2> QED BY <1>1, <2>4
<1>4. CASE adv.pc = "devices"
  <2>1. \A s \in VisibleSlots : s <= st.at
    BY <1>1, <1>4, AdvanceBelow
  <2>2. \A s \in VisibleSlots : s < Total
    BY TotalType DEF VisibleSlots
  <2>3. Lists(adv.list, Total) /\ Total \in 0..Total
    BY <1>2, <2>1, <2>2, TotalType
  <2>4. Complete(adv.list)
    BY <2>3 DEF Complete
  <2>5. SeesBus(adv)
    BY <1>4, <2>4 DEF SeesBus, InProbe
  <2> QED BY <1>1, <2>5
<1> QED BY <1>2, <1>3, <1>4

\* A function that was identified: its entry follows the others.
LEMMA FoundSees ==
  ASSUME NEW st, ScanOK(st), SeesBus(st), st.pc \in InProbe,
         NEW memory \in BOOLEAN, memory = (bus[st.at].bar = "memory")
  PROVE  SeesBus(Found(st, memory))
<1>1. PICK a : a = st.at
  OBVIOUS
<1>2. PICK e : e = Entry(st.kind, memory)
  OBVIOUS
<1>3. a \in VisibleSlots /\ a \in Nat
  BY <1>1, DiscoveryConstants DEF SeesBus, VisibleSlots, ScanOK, ScanRecs
<1>4. e = EntryOf(a) /\ e \in Made
  BY <1>1, <1>2 DEF SeesBus, EntryOf, Entry, Made, ScanOK
<1>5. PICK grown : grown = [st EXCEPT !.list = Append(st.list, e)]
  OBVIOUS
<1>6. st.list \in Seq(Made) /\ Lists(st.list, a) /\ st.functions = FunctionsOf(a)
  BY <1>1 DEF ScanOK, ScanRecs, SeesBus
<1>7. Append(st.list, e) \in Seq(Made)
  BY <1>4, <1>6, AppendProperties
<1>8. /\ grown \in ScanRecs /\ grown.list = Append(st.list, e) /\ grown.at = a
      /\ grown.functions = st.functions /\ grown.reg = "vendor"
  BY <1>1, <1>5, <1>7 DEF ScanOK, ScanRecs, InProbe
<1>9. \A n \in Nat : (\A s \in VisibleSlots : s < n <=> s <= a) => Lists(grown.list, n)
  BY <1>3, <1>4, <1>6, <1>8, ListsAppend
<1>10. SeesBus(Advance(grown))
  BY <1>6, <1>8, <1>9, AdvanceSees
<1> QED BY <1>2, <1>5, <1>10 DEF Found

\* The header of a function that is there or not, read from its own slot: only
\* the fields that Visit looks at matter.
HeaderAt(header, s) ==
  IF bus[s] = Absent THEN header = Absent
  ELSE /\ header # Absent /\ header.multi = bus[s].multi
       /\ classify_pci_device(header) = classify_pci_device(bus[s])

LEMMA VisitSees ==
  ASSUME NEW st, ScanOK(st), SeesBus(st), st.pc = "header", st.reg = "vendor", st.known,
         NEW header, HeaderAt(header, st.at)
  PROVE  SeesBus(Visit(st, header))
<1>1. PICK a : a = st.at
  OBVIOUS
<1>2. a \in Slots /\ a \in Nat /\ a \in 0..Total /\ st \in ScanRecs
  BY <1>1, DiscoveryConstants, TotalType DEF ScanOK, ScanRecs
<1>3. Function(a) = 0 => FirstOf(a) = a
  <2>1. a = FirstOf(a) + Function(a) /\ FirstOf(a) \in Nat
    BY <1>2, Block
  <2> QED BY <2>1
<1>4. Lists(st.list, a) /\ st.functions = FunctionsOf(a) /\ (Function(a) # 0 => MultiAt(a))
  BY <1>1 DEF SeesBus
<1>5. CASE header = Absent \/ classify_pci_device(header) = "None"
  <2>1. a \notin VisibleSlots
    BY <1>1, <1>5 DEF VisibleSlots, Visible, HeaderAt
  <2>2. ASSUME NEW n \in Nat, \A s \in VisibleSlots : s < n <=> s <= a PROVE Lists(st.list, n)
    <3>1. \A s \in VisibleSlots : s \in Nat /\ s # a
      BY <2>1, DiscoveryConstants DEF VisibleSlots
    <3>2. Below(n) = Below(a)
      BY <1>2, <2>2, <3>1 DEF Below
    <3> QED BY <1>4, <3>2, ListsSame
  <2>3. SeesBus(Advance(st))
    BY <1>1, <1>2, <1>4, <2>2, AdvanceSees
  <2> QED BY <1>5, <2>3 DEF Visit
<1>6. CASE ~(header = Absent \/ classify_pci_device(header) = "None")
  <2>1. Visible(a)
    BY <1>1, <1>3, <1>4, <1>6 DEF Visible, HeaderAt, MultiAt
  <2>2. CASE Len(st.list) >= MaxCompute
    <3>1. PICK st2 : st2 = [st EXCEPT !.pc = "devices"]
      OBVIOUS
    <3>2. st2.pc = "devices" /\ st2.list = st.list
      BY <1>2, <3>1 DEF ScanRecs
    <3>3. Len(st.list) = MaxCompute
      BY <1>2, <2>2, DiscoveryConstants, LenProperties DEF ScanOK, ScanRecs
    <3>4. Complete(st2.list)
      BY <1>2, <1>4, <3>2, <3>3 DEF Complete
    <3>5. SeesBus(st2)
      BY <3>2, <3>4 DEF SeesBus, InProbe
    <3> QED BY <1>6, <2>2, <3>1, <3>5 DEF Visit
  <2>3. CASE ~(Len(st.list) >= MaxCompute)
    <3>1. PICK kind : kind = classify_pci_device(header)
      OBVIOUS
    <3>2. PICK st2 : st2 = [st EXCEPT !.pc = "original", !.kind = kind]
      OBVIOUS
    <3>3. /\ st2.pc = "original" /\ st2.list = st.list /\ st2.kind = kind /\ st2.at = a
          /\ st2.functions = st.functions
      BY <1>1, <1>2, <3>2 DEF ScanRecs
    <3>4. kind = classify_pci_device(bus[a])
      BY <1>1, <1>6, <3>1 DEF HeaderAt
    <3>5. SeesBus(st2)
      BY <1>4, <2>1, <3>3, <3>4 DEF SeesBus, InProbe
    <3> QED BY <1>6, <2>3, <3>1, <3>2, <3>5 DEF Visit
  <2> QED BY <2>2, <2>3
<1> QED BY <1>5, <1>6

\* header0 tells how many functions there are.
LEMMA CountSees ==
  ASSUME NEW st, ScanOK(st), SeesBus(st), st.pc = "header", st.reg = "vendor", ~st.known,
         NEW header, HeaderAt(header, st.at)
  PROVE  SeesBus(CountFunctions(st, header))
<1>1. PICK a : a = st.at
  OBVIOUS
<1>2. a \in Slots /\ a \in Nat /\ st \in ScanRecs
  BY <1>1, DiscoveryConstants DEF ScanOK, ScanRecs
<1>3. Lists(st.list, a) /\ Function(a) = 0
  BY <1>1 DEF SeesBus
<1>4. FirstOf(a) = a
  <2>1. a = FirstOf(a) + Function(a) /\ FirstOf(a) \in Nat
    BY <1>2, Block
  <2> QED BY <1>3, <2>1
<1>5. PICK functions \in {1, NFunctions} :
        functions = IF header # Absent /\ header.multi THEN NFunctions ELSE 1
  OBVIOUS
<1>6. functions = FunctionsOf(a)
  BY <1>1, <1>4, <1>5 DEF FunctionsOf, MultiAt, HeaderAt
<1>7. CASE header = Absent
  <2>1. PICK one : one = [st EXCEPT !.functions = 1]
    OBVIOUS
  <2>2. /\ one \in ScanRecs /\ one.list = st.list /\ one.at = a /\ one.reg = "vendor"
        /\ one.functions = 1
    BY <1>1, <1>2, <2>1 DEF ScanRecs
  <2>3. a \notin VisibleSlots
    BY <1>1, <1>7 DEF VisibleSlots, Visible, HeaderAt
  <2>4. ASSUME NEW n \in Nat, \A s \in VisibleSlots : s < n <=> s <= a PROVE Lists(one.list, n)
    <3>1. \A s \in VisibleSlots : s \in Nat /\ s # a
      BY <2>3, DiscoveryConstants DEF VisibleSlots
    <3>2. Below(n) = Below(a)
      BY <1>2, <2>4, <3>1 DEF Below
    <3> QED BY <1>3, <2>2, <3>2, ListsSame
  <2>5. one.functions = FunctionsOf(one.at)
    BY <1>5, <1>6, <1>7, <2>2
  <2>6. SeesBus(Advance(one))
    BY <2>2, <2>4, <2>5, AdvanceSees
  <2> QED BY <1>7, <2>1, <2>6 DEF CountFunctions
<1>8. CASE header # Absent
  <2>1. PICK st2 : st2 = [st EXCEPT !.known = TRUE, !.functions = functions]
    OBVIOUS
  <2>2. /\ st2.pc = "header" /\ st2.at = a /\ st2.list = st.list /\ st2.reg = "vendor"
        /\ st2.functions = functions
    BY <1>1, <1>2, <2>1 DEF ScanRecs
  <2>3. SeesBus(st2)
    BY <1>3, <1>6, <2>2 DEF SeesBus, InProbe
  <2> QED BY <1>5, <1>8, <2>1, <2>3 DEF CountFunctions
<1> QED BY <1>7, <1>8

LEMMA IdentifiedSees ==
  ASSUME NEW st, ScanOK(st), SeesBus(st), st.pc = "header", NEW header, HeaderAt(header, st.at)
  PROVE  SeesBus(Identified(st, header))
<1>1. PICK here : here = [st EXCEPT !.reg = "vendor", !.header = Blank, !.addressed = FALSE]
  OBVIOUS
<1>2. Blank \in Headers
  BY DEF Blank, Headers
<1>3. /\ ScanOK(here) /\ here.pc = "header" /\ here.reg = "vendor" /\ here.known = st.known
      /\ here.at = st.at /\ here.list = st.list /\ here.functions = st.functions
  BY <1>1, <1>2 DEF ScanOK, ScanRecs, InProbe
<1>4. SeesBus(here)
  BY <1>3 DEF SeesBus, InProbe
<1>5. Identified(st, header) = IF st.known THEN Visit(here, header) ELSE CountFunctions(here, header)
  BY <1>1 DEF Identified
<1> QED BY <1>3, <1>4, <1>5, VisitSees, CountSees

\* A dword that was read from its own slot.
LEMMA ReadSees ==
  ASSUME Types, NEW st, ScanOK(st), SeesBus(st), st.pc = "header",
         NEW v, v = Dword(bus[st.at], st.reg)
  PROVE  SeesBus(ReadDword(st, v))
<1>1. PICK card : card = bus[st.at]
  OBVIOUS
<1>2. card \in Cards \cup {Absent} /\ st \in ScanRecs /\ st.header \in Headers
  BY <1>1 DEF Types, ScanOK, ScanRecs
<1>3. card # Absent => /\ card.vendor \in {"google", "other"} /\ card.multi \in BOOLEAN
                       /\ card.class \in {"display", "accelerator", "other"}
  BY <1>2, DiscoveryAssumption
<1>4. CASE st.reg = "vendor" /\ card = Absent
  <2>1. ReadDword(st, v) = Identified(st, Absent)
    BY <1>1, <1>4 DEF ReadDword, Dword
  <2>2. HeaderAt(Absent, st.at)
    BY <1>1, <1>4 DEF HeaderAt
  <2> QED BY <2>1, <2>2, IdentifiedSees
<1>5. CASE st.reg = "vendor" /\ card # Absent
  <2>1. v = card.vendor /\ v # "absent"
    BY <1>1, <1>3, <1>5 DEF Dword
  <2>2. PICK h : h = [st.header EXCEPT !.vendor = v]
    OBVIOUS
  <2>3. PICK st2 : st2 = [st EXCEPT !.header = h, !.reg = "class", !.addressed = FALSE]
    OBVIOUS
  <2>4. ReadDword(st, v) = st2
    BY <1>2, <1>5, <2>1, <2>2, <2>3 DEF ReadDword, ScanRecs
  <2>5. h.vendor = v
    BY <1>2, <2>2 DEF Headers
  <2>6. /\ st2.pc = "header" /\ st2.at = st.at /\ st2.list = st.list /\ st2.known = st.known
        /\ st2.functions = st.functions /\ st2.reg = "class" /\ st2.header = h
    BY <1>2, <2>3 DEF ScanRecs
  <2>7. SeesBus(st2)
    BY <1>1, <1>5, <2>1, <2>5, <2>6 DEF SeesBus, InProbe
  <2> QED BY <2>4, <2>7
<1>6. CASE st.reg = "class"
  <2>1. card # Absent /\ v = card.class /\ st.header.vendor = card.vendor
    BY <1>1, <1>6 DEF Dword, SeesBus
  <2>2. PICK h : h = [st.header EXCEPT !.class = v]
    OBVIOUS
  <2>3. PICK st2 : st2 = [st EXCEPT !.header = h, !.reg = "multi", !.addressed = FALSE]
    OBVIOUS
  <2>4. ReadDword(st, v) = st2
    BY <1>2, <1>6, <2>1, <2>2, <2>3 DEF ReadDword, ScanRecs
  <2>5. h.class = v /\ h.vendor = card.vendor
    BY <1>2, <2>1, <2>2 DEF Headers
  <2>6. /\ st2.pc = "header" /\ st2.at = st.at /\ st2.list = st.list /\ st2.known = st.known
        /\ st2.functions = st.functions /\ st2.reg = "multi" /\ st2.header = h
    BY <1>2, <2>3 DEF ScanRecs
  <2>7. SeesBus(st2)
    BY <1>1, <2>1, <2>5, <2>6 DEF SeesBus, InProbe
  <2> QED BY <2>4, <2>7
<1>7. CASE st.reg = "multi"
  <2>1. card # Absent /\ v = card.multi /\ st.header.vendor = card.vendor /\ st.header.class = card.class
    BY <1>1, <1>7 DEF Dword, SeesBus
  <2>2. PICK h : h = [st.header EXCEPT !.multi = v]
    OBVIOUS
  <2>3. /\ h \in Headers /\ h.vendor = card.vendor /\ h.class = card.class
        /\ h.multi = card.multi
    BY <1>2, <1>3, <2>1, <2>2 DEF Headers
  <2>4. h # Absent
    BY <2>3, DiscoveryAssumption
  <2>5. classify_pci_device(h) = classify_pci_device(card)
    BY <2>3 DEF classify_pci_device
  <2>6. HeaderAt(h, st.at)
    BY <1>1, <2>1, <2>3, <2>4, <2>5 DEF HeaderAt
  <2>7. ReadDword(st, v) = Identified(st, h)
    BY <1>7, <2>2 DEF ReadDword
  <2> QED BY <2>6, <2>7, IdentifiedSees
<1> QED BY <1>2, <1>4, <1>5, <1>6, <1>7 DEF ScanRecs

LEMMA NewScanSees == SeesBus(NewScan) /\ SeesMask(NewScan)
<1>1. /\ NewScan.pc = "header" /\ NewScan.list = <<>> /\ NewScan.at = 0
      /\ NewScan.reg = "vendor" /\ ~NewScan.known
  BY DEF NewScan
<1>2. Function(0) = 0
  BY Block, DiscoveryConstants
<1>3. Below(0) = {}
  <2>1. \A s \in VisibleSlots : s \in Nat
    BY DiscoveryConstants DEF VisibleSlots
  <2>2. \A s \in Nat : ~(s < 0)
    OBVIOUS
  <2> QED BY <2>1, <2>2 DEF Below
<1>4. Lists(<<>>, 0)
  BY <1>3, FS_EmptySet DEF Lists
<1> QED BY <1>1, <1>2, <1>4 DEF SeesBus, SeesMask, InProbe

----------------------------------------------------------------------------
(***************************************************************************)
(* What is left of a scan when it has ended.                               *)
(***************************************************************************)

\* The low bits of a BAR are wired, whoever wrote it last.
WiredBars == \A s \in Slots : \E w \in BarValues : bar[s] = Wired(bus[s], w)

Fresh == Alone /\ stale = {}

Sight ==
  Fresh => \A c \in Contexts : scan[c] # Idle => SeesBus(scan[c]) /\ SeesMask(scan[c])

\* Between the two assignments of rescan the array is already the new one; at
\* any other time the entries up to the count are those of the last scan.
Kept ==
  Alone =>
    /\ \A c \in Contexts : scan[c].pc = "count" => devices = Padded(scan[c].list)
    /\ (\A c \in Contexts : scan[c].pc # "count")
         => \A i \in 1..device_count : devices[i].kind # "Unknown"
    /\ stale = {} /\ stage # "compute" /\ (\A c \in Contexts : scan[c] = Idle)
         => Complete(enumerate_compute_devices)

ListInv == WiredBars /\ Sight /\ Kept

LEMMA CompleteFrame ==
  ASSUME UNCHANGED bus, NEW list, Complete(list)
  PROVE  Complete(list)'
<1>1. PICK st : st = [pc |-> "devices", list |-> list]
  OBVIOUS
<1>2. SeesBus(st)
  BY <1>1 DEF SeesBus, InProbe
<1>3. SeesBus(st)'
  BY <1>2, BusFrame
<1> QED BY <1>1, <1>3 DEF SeesBus

LEMMA SightStep ==
  ASSUME ScanInv, NEW c \in Contexts, ctx = c, NEW st, scan'[c] = st,
         \A d \in Contexts \ {c} : scan'[d] = scan[d], Alone' => Alone,
         Fresh' /\ st # Idle => SeesBus(st)' /\ SeesMask(st)'
  PROVE  Sight'
<1>1. Fresh' => \A d \in Contexts \ {c} : scan'[d] = Idle
  BY OtherIdle DEF ScanInv, Fresh
<1> QED BY <1>1 DEF Sight

LEMMA KeptStep ==
  ASSUME Kept, NEW c \in Contexts, NEW st, scan'[c] = st, st # Idle, st.pc # "count",
         \A d \in Contexts \ {c} : scan'[d] = scan[d], Alone' => Alone, scan[c].pc # "count",
         UNCHANGED <<devices, device_count>>
  PROVE  Kept'
<1>1. \A d \in Contexts : scan'[d].pc = "count" <=> scan[d].pc = "count"
  OBVIOUS
<1>2. \A d \in Contexts : scan'[d].pc = "count" => scan'[d] = scan[d]
  OBVIOUS
<1>3. ~(\A d \in Contexts : scan'[d] = Idle)
  OBVIOUS
<1> QED BY <1>1, <1>2, <1>3 DEF Kept, Padded

LEMMA WiredFrame == ASSUME WiredBars, UNCHANGED <<bus, bar>> PROVE WiredBars'
BY DEF WiredBars, Wired

LEMMA WiredWrite ==
  ASSUME ScanInv, WiredBars, NEW c \in Contexts, ScanOK(scan[c]), NEW v \in BarValues, Write(c, v),
         UNCHANGED bus
  PROVE  WiredBars'
<1>1. \A s \in Slots : bar'[s] = bar[s] \/ bar'[s] = Wired(bus[s], v)
  BY HitType DEF Write, ScanInv, Types, Registers
<1>2. \A s \in Slots : \E w \in BarValues : bar'[s] = Wired(bus[s], w)
  BY <1>1 DEF WiredBars
<1> QED BY <1>2 DEF WiredBars, Wired

\* The update of one context's scan, seen from both.
LEMMA ScanUpdate ==
  ASSUME ScanInv, NEW c \in Contexts, NEW st, scan' = [scan EXCEPT ![c] = st]
  PROVE  scan'[c] = st /\ \A d \in Contexts \ {c} : scan'[d] = scan[d]
BY DEF ScanInv, Types

LEMMA SelectLists == ASSUME ScanInv, ListInv, NEW c \in Contexts, Select(c) PROVE ListInv'
<1>1. PICK st : st = [scan[c] EXCEPT !.addressed = TRUE]
  OBVIOUS
<1>2. /\ ctx = c /\ scan[c] # Idle /\ ScanOK(scan[c]) /\ scan[c].pc # "count"
      /\ scan' = [scan EXCEPT ![c] = st]
      /\ UNCHANGED <<guarded, bus, bar, stage, devices, device_count, stale>>
  BY <1>1 DEF Select, ScanInv, Types, Idle, fixed, hardware, lists, history
<1>3. /\ st.pc = scan[c].pc /\ st.at = scan[c].at /\ st.list = scan[c].list
      /\ st.functions = scan[c].functions /\ st.kind = scan[c].kind /\ st.mask = scan[c].mask
      /\ st.reg = scan[c].reg /\ st.header = scan[c].header /\ st.known = scan[c].known
  BY <1>1, <1>2 DEF ScanOK, ScanRecs
<1>4. scan'[c] = st /\ \A d \in Contexts \ {c} : scan'[d] = scan[d]
  BY <1>2, ScanUpdate
<1>5. Fresh' => Fresh
  BY <1>2 DEF Fresh, Alone
<1>6. Fresh' => SeesBus(st)' /\ SeesMask(st)'
  <2>1. Fresh => SeesBus(scan[c]) /\ SeesMask(scan[c])
    BY <1>2 DEF ListInv, Sight
  <2>2. Fresh => SeesBus(st) /\ SeesMask(st)
    BY <1>3, <2>1 DEF SeesBus, SeesMask
  <2>3. SeesMask(st) => SeesMask(st)'
    BY <1>2 DEF SeesMask, Wired
  <2> QED BY <1>2, <1>5, <2>2, <2>3, BusFrame
<1>7. st # Idle
  BY <1>2, <1>3 DEF Idle, Select
<1>8. Sight' /\ Kept' /\ WiredBars'
  BY <1>2, <1>3, <1>4, <1>6, <1>7, SightStep, KeptStep, WiredFrame DEF ListInv, Alone
<1> QED BY <1>8 DEF ListInv

LEMMA HeaderLists == ASSUME ScanInv, ListInv, NEW c \in Contexts, read_pci_header(c) PROVE ListInv'
<1>1. ctx = c /\ scan[c].pc = "header" /\ ScanOK(scan[c]) /\ scan[c] # Idle
  BY Running DEF read_pci_header, ScanInv
<1>2. PICK v \in Dwords(c) : scan' = [scan EXCEPT ![c] = ReadDword(@, v)]
  BY DEF read_pci_header
<1>3. PICK st : st = ReadDword(scan[c], v)
  OBVIOUS
<1>4. st.pc \in {"header", "original", "devices"}
  BY <1>1, <1>2, <1>3, ReadsType, ReadEffect DEF ScanInv
<1>5. scan' = [scan EXCEPT ![c] = st]
  BY <1>2, <1>3
<1>6. UNCHANGED <<guarded, bus, bar, stage, devices, device_count, stale>>
  BY DEF read_pci_header, fixed, hardware, lists, history
<1>7. scan'[c] = st /\ \A d \in Contexts \ {c} : scan'[d] = scan[d]
  BY <1>5, ScanUpdate
<1>8. Fresh' => SeesBus(st)' /\ SeesMask(st)'
  <2>1. SUFFICES ASSUME Fresh PROVE SeesBus(st)' /\ SeesMask(st)'
    BY <1>6 DEF Fresh, Alone
  <2>2. SeesBus(scan[c])
    BY <1>1, <2>1 DEF ListInv, Sight
  <2>3. Hit(c) = Wanted(c)
    BY <1>1, <2>1 DEF Hit, Addressed, ScanInv, Fresh, read_pci_header, Access
  <2>4. Wanted(c) = [at |-> scan[c].at, reg |-> scan[c].reg]
    BY <1>1 DEF Wanted, Register
  <2>5. v = Dword(bus[scan[c].at], scan[c].reg)
    BY <1>2, <2>3, <2>4 DEF Dwords
  <2>6. SeesBus(st)
    BY <1>1, <1>3, <2>2, <2>5, ReadSees DEF ScanInv
  <2>7. SeesBus(st)'
    BY <1>6, <2>6, BusFrame
  <2> QED BY <1>4, <2>7 DEF SeesMask
<1>9. st # Idle /\ st.pc # "count" /\ scan[c].pc # "count"
  BY <1>1, <1>4 DEF Idle
<1>10. Sight' /\ Kept' /\ WiredBars'
  BY <1>1, <1>6, <1>7, <1>8, <1>9, SightStep, KeptStep, WiredFrame DEF ListInv, Alone
<1> QED BY <1>10 DEF ListInv

\* What probe_bar_size can tell of a card from its BAR.
LEMMA CardBars ==
  ASSUME NEW card \in Cards
  PROVE  /\ \A w \in BarValues : Wired(card, w).io = (card.bar = "io")
         /\ card.bar # "io" => (Wired(card, Ones) # Zero <=> card.bar = "memory")
<1>1. card # Absent /\ card.bar \in {"memory", "io", "none"}
  BY DiscoveryAssumption
<1>2. CASE card.bar = "none"
  <2>1. \A w : Wired(card, w) = Zero
    BY <1>1, <1>2 DEF Wired
  <2>2. Zero.io = FALSE
    BY DEF Zero
  <2> QED BY <1>2, <2>1, <2>2
<1>3. CASE card.bar # "none"
  <2>1. PICK io \in BOOLEAN : io = (card.bar = "io")
    OBVIOUS
  <2>2. \A w : Wired(card, w) = [w EXCEPT !.io = io]
    BY <1>1, <1>3, <2>1 DEF Wired
  <2>3. \A w \in BarValues : [w EXCEPT !.io = io].io = io
    BY DEF BarValues
  <2>4. [Ones EXCEPT !.io = io].rest = "ones" /\ Zero.rest = "zero"
    BY DEF Ones, Zero
  <2>5. \A w \in BarValues : Wired(card, w).io = (card.bar = "io")
    BY <2>1, <2>2, <2>3
  <2>6. Wired(card, Ones) # Zero
    BY <2>2, <2>4
  <2> QED BY <1>1, <1>3, <2>5, <2>6
<1> QED BY <1>2, <1>3

LEMMA OriginalLists == ASSUME ScanInv, ListInv, NEW c \in Contexts, ReadOriginal(c) PROVE ListInv'
<1>1. ctx = c /\ scan[c].pc = "original" /\ ScanOK(scan[c]) /\ scan[c] # Idle
  BY Running DEF ReadOriginal, ScanInv
<1>2. PICK v \in Bars(c) :
        LET st == [scan[c] EXCEPT !.addressed = FALSE, !.original = v]
        IN scan' = [scan EXCEPT ![c] = IF v.io THEN Found(st, FALSE) ELSE [st EXCEPT !.pc = "ones"]]
  BY DEF ReadOriginal
<1>3. PICK base : base = [scan[c] EXCEPT !.addressed = FALSE, !.original = v]
  OBVIOUS
<1>4. v \in BarValues
  BY <1>1, ReadsType DEF ScanInv
<1>5. /\ ScanOK(base) /\ base.pc = "original" /\ base.at = scan[c].at
      /\ base.list = scan[c].list /\ base.functions = scan[c].functions
      /\ base.kind = scan[c].kind
  BY <1>1, <1>3, <1>4 DEF ScanOK, ScanRecs, InProbe
<1>6. UNCHANGED <<guarded, bus, bar, stage, devices, device_count, stale>>
  BY DEF ReadOriginal, fixed, hardware, lists, history
<1>7. Fresh => SeesBus(base) /\ (v.io <=> bus[base.at].bar = "io")
  <2>1. SUFFICES ASSUME Fresh PROVE SeesBus(base) /\ (v.io <=> bus[base.at].bar = "io")
    OBVIOUS
  <2>2. SeesBus(scan[c])
    BY <1>1, <2>1 DEF ListInv, Sight
  <2>3. SeesBus(base)
    BY <1>1, <1>5, <2>2 DEF SeesBus, InProbe
  <2>4. Hit(c).at = scan[c].at /\ Hit(c).reg = "bar"
    BY <2>1, HitsOwnBar DEF ScanInv, Fresh, ReadOriginal, InProbe
  <2>5. v = bar[base.at]
    BY <1>2, <1>5, <2>4 DEF Bars
  <2>6. base.at \in Slots /\ bus[base.at] \in Cards
    BY <1>5, <2>3 DEF SeesBus, Visible, InProbe, ScanInv, Types, ScanOK, ScanRecs
  <2>7. PICK w \in BarValues : bar[base.at] = Wired(bus[base.at], w)
    BY <2>6 DEF ListInv, WiredBars
  <2> QED BY <2>3, <2>5, <2>6, <2>7, CardBars
<1>8. CASE v.io
  <2>1. PICK st : st = Found(base, FALSE)
    OBVIOUS
  <2>2. st.pc \in {"header", "devices"}
    BY <1>5, <2>1, FoundEffect DEF InProbe
  <2>3. scan' = [scan EXCEPT ![c] = st]
    BY <1>2, <1>3, <1>8, <2>1
  <2>4. scan'[c] = st /\ \A d \in Contexts \ {c} : scan'[d] = scan[d]
    BY <2>3, ScanUpdate
  <2>5. Fresh => SeesBus(st)
    BY <1>5, <1>7, <1>8, <2>1, FoundSees DEF InProbe
  <2>6. Fresh' => SeesBus(st)' /\ SeesMask(st)'
    BY <1>6, <2>2, <2>5, BusFrame DEF Fresh, Alone, SeesMask
  <2>7. st # Idle /\ st.pc # "count" /\ scan[c].pc # "count"
    BY <1>1, <2>2 DEF Idle
  <2>8. Sight' /\ Kept' /\ WiredBars'
    BY <1>1, <1>6, <2>4, <2>6, <2>7, SightStep, KeptStep, WiredFrame DEF ListInv, Alone
  <2> QED BY <2>8 DEF ListInv
<1>9. CASE ~v.io
  <2>1. PICK st : st = [base EXCEPT !.pc = "ones"]
    OBVIOUS
  <2>2. /\ st.pc = "ones" /\ st.at = base.at /\ st.list = base.list
        /\ st.functions = base.functions /\ st.kind = base.kind
    BY <1>5, <2>1 DEF ScanOK, ScanRecs
  <2>3. scan' = [scan EXCEPT ![c] = st]
    BY <1>2, <1>3, <1>9, <2>1
  <2>4. scan'[c] = st /\ \A d \in Contexts \ {c} : scan'[d] = scan[d]
    BY <2>3, ScanUpdate
  <2>5. Fresh => SeesBus(st)
    BY <1>5, <1>7, <1>9, <2>2 DEF SeesBus, InProbe
  <2>6. Fresh' => SeesBus(st)' /\ SeesMask(st)'
    BY <1>6, <2>2, <2>5, BusFrame DEF Fresh, Alone, SeesMask
  <2>7. st # Idle /\ st.pc # "count" /\ scan[c].pc # "count"
    BY <1>1, <2>2 DEF Idle
  <2>8. Sight' /\ Kept' /\ WiredBars'
    BY <1>1, <1>6, <2>4, <2>6, <2>7, SightStep, KeptStep, WiredFrame DEF ListInv, Alone
  <2> QED BY <2>8 DEF ListInv
<1> QED BY <1>8, <1>9

LEMMA OnesLists == ASSUME ScanInv, ListInv, NEW c \in Contexts, WriteOnes(c) PROVE ListInv'
<1>1. ctx = c /\ scan[c].pc = "ones" /\ ScanOK(scan[c]) /\ scan[c] # Idle
  BY Running DEF WriteOnes, ScanInv
<1>2. PICK st : st = [scan[c] EXCEPT !.pc = "mask", !.addressed = FALSE]
  OBVIOUS
<1>3. /\ scan' = [scan EXCEPT ![c] = st] /\ Write(c, Ones)
      /\ UNCHANGED <<guarded, bus, stage, devices, device_count, stale>>
  BY <1>2 DEF WriteOnes, fixed, lists, history
<1>4. /\ st.pc = "mask" /\ st.at = scan[c].at /\ st.list = scan[c].list
      /\ st.functions = scan[c].functions /\ st.kind = scan[c].kind /\ st.at \in Slots
  BY <1>1, <1>2 DEF ScanOK, ScanRecs
<1>5. scan'[c] = st /\ \A d \in Contexts \ {c} : scan'[d] = scan[d]
  BY <1>3, ScanUpdate
<1>6. Ones \in BarValues
  BY DEF Ones, BarValues
<1>7. Fresh' => SeesBus(st)' /\ SeesMask(st)'
  <2>1. SUFFICES ASSUME Fresh PROVE SeesBus(st)' /\ SeesMask(st)'
    BY <1>3 DEF Fresh, Alone
  <2>2. SeesBus(scan[c])
    BY <1>1, <2>1 DEF ListInv, Sight
  <2>3. SeesBus(st)
    BY <1>1, <1>4, <2>2 DEF SeesBus, InProbe
  <2>4. Hit(c).at = scan[c].at /\ Hit(c).reg = "bar"
    BY <2>1, HitsOwnBar DEF ScanInv, Fresh, WriteOnes, InProbe
  <2>5. bar'[st.at] = Wired(bus[st.at], Ones)
    BY <1>1, <1>3, <1>4, <1>6, <2>4, WriteType DEF ScanInv
  <2>6. SeesMask(st)'
    BY <1>3, <2>5 DEF SeesMask, Wired
  <2> QED BY <1>3, <2>3, <2>6, BusFrame
<1>8. st # Idle /\ st.pc # "count" /\ scan[c].pc # "count"
  BY <1>1, <1>4 DEF Idle
<1>9. Sight' /\ Kept' /\ WiredBars'
  BY <1>1, <1>3, <1>5, <1>6, <1>7, <1>8, SightStep, KeptStep, WiredWrite DEF ListInv, Alone
<1> QED BY <1>9 DEF ListInv

LEMMA MaskLists == ASSUME ScanInv, ListInv, NEW c \in Contexts, ReadMask(c) PROVE ListInv'
<1>1. ctx = c /\ scan[c].pc = "mask" /\ ScanOK(scan[c]) /\ scan[c] # Idle
  BY Running DEF ReadMask, ScanInv
<1>2. PICK v \in Bars(c) :
        scan' = [scan EXCEPT ![c].pc = "restore", ![c].addressed = FALSE, ![c].mask = v]
  BY DEF ReadMask
<1>3. PICK st : st = [scan[c] EXCEPT !.pc = "restore", !.addressed = FALSE, !.mask = v]
  OBVIOUS
<1>4. /\ st.pc = "restore" /\ st.at = scan[c].at /\ st.list = scan[c].list /\ st.mask = v
      /\ st.functions = scan[c].functions /\ st.kind = scan[c].kind
  BY <1>1, <1>3 DEF ScanOK, ScanRecs
<1>5. scan' = [scan EXCEPT ![c] = st]
  BY <1>2, <1>3
<1>6. scan'[c] = st /\ \A d \in Contexts \ {c} : scan'[d] = scan[d]
  BY <1>5, ScanUpdate
<1>7. UNCHANGED <<guarded, bus, bar, stage, devices, device_count, stale>>
  BY DEF ReadMask, fixed, hardware, lists, history
<1>8. Fresh' => SeesBus(st)' /\ SeesMask(st)'
  <2>1. SUFFICES ASSUME Fresh PROVE SeesBus(st)' /\ SeesMask(st)'
    BY <1>7 DEF Fresh, Alone
  <2>2. SeesBus(scan[c]) /\ SeesMask(scan[c])
    BY <1>1, <2>1 DEF ListInv, Sight
  <2>3. Hit(c).at = scan[c].at /\ Hit(c).reg = "bar"
    BY <2>1, HitsOwnBar DEF ScanInv, Fresh, ReadMask, InProbe
  <2>4. v = Wired(bus[scan[c].at], Ones)
    BY <1>1, <1>2, <2>2, <2>3 DEF Bars, SeesMask
  <2>5. SeesBus(st)
    BY <1>1, <1>4, <2>2, <2>4 DEF SeesBus, InProbe
  <2>6. SeesBus(st)'
    BY <1>7, <2>5, BusFrame
  <2> QED BY <1>4, <2>6 DEF SeesMask
<1>9. st # Idle /\ st.pc # "count" /\ scan[c].pc # "count"
  BY <1>1, <1>4 DEF Idle
<1>10. Sight' /\ Kept' /\ WiredBars'
  BY <1>1, <1>6, <1>7, <1>8, <1>9, SightStep, KeptStep, WiredFrame DEF ListInv, Alone
<1> QED BY <1>10 DEF ListInv

LEMMA RestoreLists == ASSUME ScanInv, ListInv, NEW c \in Contexts, Restore(c) PROVE ListInv'
<1>1. ctx = c /\ scan[c].pc = "restore" /\ ScanOK(scan[c]) /\ scan[c] # Idle
  BY Running DEF Restore, ScanInv
<1>2. PICK base : base = [scan[c] EXCEPT !.addressed = FALSE]
  OBVIOUS
<1>3. PICK memory \in BOOLEAN : memory = (scan[c].mask # Zero)
  OBVIOUS
<1>4. PICK st : st = Found(base, memory)
  OBVIOUS
<1>5. /\ scan' = [scan EXCEPT ![c] = st] /\ Write(c, scan[c].original)
      /\ UNCHANGED <<guarded, bus, stage, devices, device_count, stale>>
  BY <1>2, <1>3, <1>4 DEF Restore, fixed, lists, history
<1>6. /\ ScanOK(base) /\ base.pc = "restore" /\ base.at = scan[c].at /\ base.list = scan[c].list
      /\ base.functions = scan[c].functions /\ base.kind = scan[c].kind
      /\ base.mask = scan[c].mask /\ base.at \in Slots
  BY <1>1, <1>2 DEF ScanOK, ScanRecs, InProbe
<1>7. st.pc \in {"header", "devices"}
  BY <1>3, <1>4, <1>6, FoundEffect DEF InProbe
<1>8. scan'[c] = st /\ \A d \in Contexts \ {c} : scan'[d] = scan[d]
  BY <1>5, ScanUpdate
<1>9. scan[c].original \in BarValues
  BY <1>1 DEF ScanOK, ScanRecs
<1>10. Fresh' => SeesBus(st)' /\ SeesMask(st)'
  <2>1. SUFFICES ASSUME Fresh PROVE SeesBus(st)' /\ SeesMask(st)'
    BY <1>5 DEF Fresh, Alone
  <2>2. SeesBus(scan[c])
    BY <1>1, <2>1 DEF ListInv, Sight
  <2>3. SeesBus(base)
    BY <1>1, <1>6, <2>2 DEF SeesBus, InProbe
  <2>4. bus[base.at] \in Cards /\ bus[base.at].bar # "io" /\ base.mask = Wired(bus[base.at], Ones)
    BY <1>6, <2>3 DEF SeesBus, Visible, InProbe, ScanInv, Types
  <2>5. memory = (bus[base.at].bar = "memory")
    BY <1>3, <1>6, <2>4, CardBars
  <2>6. SeesBus(st)
    BY <1>3, <1>4, <1>6, <2>3, <2>5, FoundSees DEF InProbe
  <2>7. SeesBus(st)'
    BY <1>5, <2>6, BusFrame
  <2> QED BY <1>7, <2>7 DEF SeesMask
<1>11. st # Idle /\ st.pc # "count" /\ scan[c].pc # "count"
  BY <1>1, <1>7 DEF Idle
<1>12. Sight' /\ Kept' /\ WiredBars'
  BY <1>1, <1>5, <1>8, <1>9, <1>10, <1>11, SightStep, KeptStep, WiredWrite DEF ListInv, Alone
<1> QED BY <1>12 DEF ListInv

LEMMA DevicesLists == ASSUME ScanInv, ListInv, NEW c \in Contexts, ReplaceDevices(c) PROVE ListInv'
<1>1. ctx = c /\ scan[c].pc = "devices" /\ ScanOK(scan[c]) /\ scan[c] # Idle
  BY DEF ReplaceDevices, ScanInv, Types, Idle
<1>2. scan[c].list \in Seq(Made) /\ Len(scan[c].list) <= MaxCompute /\ Len(scan[c].list) \in Nat
  BY <1>1, LenProperties DEF ScanOK, ScanRecs
<1>3. ~(Len(scan[c].list) > MaxCompute)
  BY <1>2, DiscoveryConstants
<1>4. PICK st : st = [scan[c] EXCEPT !.pc = "count"]
  OBVIOUS
<1>5. /\ scan' = [scan EXCEPT ![c] = st] /\ devices' = Padded(scan[c].list)
      /\ UNCHANGED <<guarded, bus, bar, stage, stale>>
  BY <1>3, <1>4 DEF ReplaceDevices, fixed, hardware, history
<1>6. st.pc = "count" /\ st.list = scan[c].list
  BY <1>1, <1>4 DEF ScanOK, ScanRecs
<1>7. scan'[c] = st /\ \A d \in Contexts \ {c} : scan'[d] = scan[d]
  BY <1>5, ScanUpdate
<1>8. (Fresh' => Fresh) /\ (Alone' => Alone)
  BY <1>5 DEF Fresh, Alone
<1>9. Fresh' => SeesBus(st)' /\ SeesMask(st)'
  <2>1. Fresh => SeesBus(st)
    BY <1>1, <1>6 DEF ListInv, Sight, SeesBus, InProbe
  <2> QED BY <1>5, <1>6, <1>8, <2>1, BusFrame DEF SeesMask
<1>10. Kept'
  <2>1. Alone' => \A d \in Contexts \ {c} : scan'[d] = Idle
    BY <1>1, <1>7, <1>8, OtherIdle DEF ScanInv
  <2>2. Idle.pc # "count" /\ st # Idle
    BY <1>6 DEF Idle
  <2> QED BY <1>5, <1>6, <1>7, <2>1, <2>2 DEF Kept, Padded
<1>11. Sight' /\ WiredBars'
  BY <1>1, <1>5, <1>7, <1>8, <1>9, SightStep, WiredFrame DEF ListInv
<1> QED BY <1>10, <1>11 DEF ListInv

\* The first entries of the padded array are the list again.
LEMMA PaddedList ==
  ASSUME NEW list \in Seq(Made), Len(list) <= MaxCompute
  PROVE  SubSeq(Padded(list), 1, Len(list)) = list
<1>1. PICK n \in Nat : n = Len(list)
  BY LenProperties
<1>2. PICK p : p = Padded(list)
  OBVIOUS
<1>3. \A i \in 1..n : p[i] = list[i]
  <2>1. \A i \in 1..n : i \in 1..MaxCompute /\ i <= Len(list)
    BY <1>1, DiscoveryConstants
  <2> QED BY <1>2, <2>1, PaddedType
<1>4. SubSeq(p, 1, n) = [i \in 1..n |-> p[i]]
  <2>1. SubSeq(p, 1, n) = [i \in 1..(1 + n - 1) |-> p[i + 1 - 1]]
    BY <1>1 DEF SubSeq
  <2>2. 1 + n - 1 = n /\ \A i \in 1..n : i + 1 - 1 = i
    BY <1>1
  <2> QED BY <2>1, <2>2
<1>5. list = [i \in 1..n |-> list[i]]
  BY <1>1, LenProperties
<1> QED BY <1>1, <1>2, <1>3, <1>4, <1>5

LEMMA CountLists == ASSUME ScanInv, ListInv, NEW c \in Contexts, ReplaceCount(c) PROVE ListInv'
<1>1. ctx = c /\ scan[c].pc = "count" /\ ScanOK(scan[c]) /\ scan[c] # Idle
  BY DEF ReplaceCount, ScanInv, Types, Idle
<1>2. PICK list \in Seq(Made) : list = scan[c].list
  BY <1>1 DEF ScanOK, ScanRecs
<1>3. Len(list) <= MaxCompute /\ Len(list) \in Nat
  BY <1>1, <1>2, LenProperties DEF ScanOK
<1>4. /\ scan' = [scan EXCEPT ![c] = Idle] /\ device_count' = Len(list)
      /\ stage' = IF stage = "compute" THEN "power" ELSE stage
      /\ UNCHANGED <<guarded, bus, bar, devices, stale>>
  BY <1>2 DEF ReplaceCount, fixed, hardware, history
<1>5. scan'[c] = Idle /\ \A d \in Contexts \ {c} : scan'[d] = scan[d]
  BY <1>4, ScanUpdate
<1>6. (Fresh' => Fresh) /\ (Alone' => Alone)
  BY <1>4 DEF Fresh, Alone
<1>7. Alone' => devices = Padded(list)
  BY <1>1, <1>2, <1>6 DEF ListInv, Kept
<1>8. Alone' => \A i \in 1..device_count' : devices'[i].kind # "Unknown"
  <2>1. \A i \in 1..Len(list) : i \in 1..MaxCompute /\ i <= Len(list)
    BY <1>3, DiscoveryConstants
  <2>2. \A i \in 1..Len(list) : list[i] \in Made
    BY ElementOfSeq
  <2>3. \A i \in 1..Len(list) : Padded(list)[i] = list[i]
    BY <2>1, PaddedType
  <2> QED BY <1>4, <1>7, <2>2, <2>3 DEF Made, AccKinds
<1>9. Fresh' => Complete(enumerate_compute_devices)'
  <2>1. SUFFICES ASSUME Fresh' PROVE Complete(enumerate_compute_devices)'
    OBVIOUS
  <2>2. Complete(list)
    BY <1>1, <1>2, <1>6, <2>1 DEF ListInv, Sight, SeesBus
  <2>3. Complete(list)'
    BY <1>4, <2>2, CompleteFrame
  <2>4. enumerate_compute_devices' = list
    BY <1>3, <1>4, <1>7, <2>1, PaddedList DEF enumerate_compute_devices, Fresh
  <2> QED BY <2>3, <2>4 DEF Complete, Lists
<1>10. Kept'
  <2>1. Alone' => \A d \in Contexts : scan'[d] = Idle
    BY <1>1, <1>5, <1>6, OtherIdle DEF ScanInv
  <2>2. Idle.pc # "count"
    BY DEF Idle
  <2> QED BY <1>8, <1>9, <2>1, <2>2 DEF Kept, Fresh
<1>11. Sight' /\ WiredBars'
  BY <1>1, <1>4, <1>5, <1>6, SightStep, WiredFrame DEF ListInv
<1> QED BY <1>10, <1>11 DEF ListInv

LEMMA RescanLists == ASSUME ScanInv, ListInv, NEW c \in Contexts, rescan(c) PROVE ListInv'
<1>1. PICK st : st = NewScan
  OBVIOUS
<1>2. /\ ctx = c /\ scan[c] = Idle /\ scan' = [scan EXCEPT ![c] = st]
      /\ UNCHANGED <<guarded, bus, bar, stage, devices, device_count>>
  BY <1>1 DEF rescan, fixed, hardware, lists
<1>3. scan'[c] = st /\ \A d \in Contexts \ {c} : scan'[d] = scan[d]
  BY <1>2, ScanUpdate
<1>4. SeesBus(st)' /\ SeesMask(st)'
  <2>1. SeesBus(st)
    BY <1>1, NewScanSees
  <2> QED BY <1>1, <1>2, <2>1, BusFrame, NewScanOK DEF SeesMask
<1>5. st # Idle /\ st.pc # "count" /\ scan[c].pc # "count"
  BY <1>1, <1>2, NewScanOK DEF Idle
<1>6. Alone' => Alone
  BY <1>2 DEF Alone
<1>7. Sight' /\ Kept' /\ WiredBars'
  BY <1>2, <1>3, <1>4, <1>5, <1>6, SightStep, KeptStep, WiredFrame DEF ListInv
<1> QED BY <1>7 DEF ListInv

\* Steps that are no part of a scan.
LEMMA StillLists ==
  ASSUME ListInv, UNCHANGED <<guarded, bus, bar, scan, devices, device_count, stale>>,
         \/ UNCHANGED stage
         \/ stage \in {"power", "manifest"} /\ stage' \in {"manifest", "kernel"}
  PROVE  ListInv'
<1>1. (Alone' => Alone) /\ (Fresh' => Fresh)
  BY DEF Alone, Fresh
<1>2. Sight'
  <2>1. SUFFICES ASSUME Fresh, NEW c \in Contexts, scan[c] # Idle
                 PROVE  SeesBus(scan[c])' /\ SeesMask(scan[c])'
    BY <1>1 DEF Sight
  <2>2. PICK st : st = scan[c]
    OBVIOUS
  <2>3. SeesBus(st) /\ SeesMask(st)
    BY <2>1, <2>2 DEF ListInv, Sight
  <2>4. SeesBus(st)' /\ SeesMask(st)'
    BY <2>3, BusFrame DEF SeesMask, Wired
  <2>5. scan'[c] = st
    BY <2>2
  <2> QED BY <2>4, <2>5 DEF SeesBus, SeesMask
<1>3. Kept'
  <2>1. PICK list : list = enumerate_compute_devices
    OBVIOUS
  <2>2. enumerate_compute_devices' = list
    BY <2>1 DEF enumerate_compute_devices
  <2>3. Complete(enumerate_compute_devices) => Complete(list)'
    BY <2>1, CompleteFrame
  <2>4. Complete(list)' => Complete(enumerate_compute_devices)'
    BY <2>2 DEF Complete, Lists
  <2> QED BY <1>1, <2>3, <2>4 DEF ListInv, Kept, Padded
<1> QED BY <1>2, <1>3, WiredFrame DEF ListInv

LEMMA PlugLists ==
  ASSUME ScanInv, ListInv, NEW s \in Slots, NEW card \in Cards \cup {Absent}, Plug(s, card)
  PROVE  ListInv'
<1>1. /\ bus' = [bus EXCEPT ![s] = card] /\ bar' = [bar EXCEPT ![s] = Assigned(card)]
      /\ stale' = stale \cup {s}
      /\ UNCHANGED <<guarded, stage, scan, devices, device_count>>
  BY DEF Plug, fixed, lists
<1>2. ~Fresh' /\ stale' # {} /\ (Alone' => Alone)
  BY <1>1 DEF Fresh, Alone
<1>3. WiredBars'
  <2>1. PICK a \in BarValues : a = [io |-> FALSE, rest |-> "address"]
    BY DEF BarValues
  <2>2. Assigned(card) = Wired(card, a)
    BY <2>1 DEF Assigned
  <2>3. ASSUME NEW t \in Slots PROVE \E w \in BarValues : bar'[t] = Wired(bus'[t], w)
    <3>1. CASE t = s
      BY <1>1, <2>2, <3>1 DEF ScanInv, Types
    <3>2. CASE t # s
      <4>1. bar'[t] = bar[t] /\ bus'[t] = bus[t]
        BY <1>1, <3>2 DEF ScanInv, Types
      <4> QED BY <4>1 DEF ListInv, WiredBars
    <3> QED BY <3>1, <3>2
  <2> QED BY <2>3 DEF WiredBars, Wired
<1> QED BY <1>1, <1>2, <1>3 DEF ListInv, Sight, Kept, Padded

LEMMA InitLists == Init => ListInv
<1> SUFFICES ASSUME Init PROVE ListInv
  OBVIOUS
<1>1. /\ bar = [s \in Slots |-> Assigned(bus[s])] /\ device_count = 0 /\ stage = "compute"
      /\ scan = [c \in Contexts |-> IF c = "thread" THEN NewScan ELSE Idle]
  BY DEF Init
<1>2. scan["thread"] = NewScan /\ scan["isr"] = Idle
  BY <1>1 DEF Contexts
<1>3. Sight
  BY <1>2, NewScanSees DEF Sight, Contexts
<1>4. Kept
  <2>1. NewScan.pc # "count" /\ Idle.pc # "count"
    BY DEF NewScan, Idle
  <2>2. \A c \in Contexts : scan[c].pc # "count"
    BY <1>2, <2>1 DEF Contexts
  <2>3. \A i \in 1..device_count : FALSE
    BY <1>1
  <2> QED BY <1>1, <2>2, <2>3 DEF Kept
<1>5. WiredBars
  <2>1. PICK a \in BarValues : a = [io |-> FALSE, rest |-> "address"]
    BY DEF BarValues
  <2> QED BY <1>1, <2>1 DEF WiredBars, Assigned
<1> QED BY <1>3, <1>4, <1>5 DEF ListInv

LEMMA NextLists == ScanInv /\ ListInv /\ [Next]_vars => ListInv'
<1> SUFFICES ASSUME ScanInv, ListInv, [Next]_vars PROVE ListInv'
  OBVIOUS
<1>1. CASE UNCHANGED vars
  BY <1>1, StillLists DEF vars, fixed, hardware, lists, history
<1>2. CASE \E c \in Contexts : Step(c) \/ rescan(c)
  BY <1>2, SelectLists, HeaderLists, OriginalLists, OnesLists, MaskLists, RestoreLists,
     DevicesLists, CountLists, RescanLists DEF Step
<1>3. CASE PowerThermalNew \/ built_hardware_manifest
  BY <1>3, StillLists DEF PowerThermalNew, built_hardware_manifest, fixed, hardware, history
<1>4. CASE Interrupt \/ Return
  BY <1>4, StillLists DEF Interrupt, Return, fixed, hardware, lists, history
<1>5. CASE \E s \in Slots, card \in Cards \cup {Absent} : Plug(s, card)
  BY <1>5, PlugLists
<1> QED BY <1>1, <1>2, <1>3, <1>4, <1>5 DEF Next

LEMMA QuietList ==
  ASSUME ScanInv, ListInv, Alone, Quiescent, NEW list, list = enumerate_compute_devices
  PROVE  /\ list = [i \in 1..device_count |-> devices[i]]
         /\ list \in Seq(Made) /\ Len(list) = device_count
         /\ stage # "compute" /\ stale = {} => Complete(list)
<1>1. \A c \in Contexts : scan[c] = Idle /\ scan[c].pc # "count"
  BY DEF Quiescent, Idle
<1>2. \A i \in 1..device_count : devices[i].kind # "Unknown"
  BY <1>1 DEF ListInv, Kept
<1>3. PICK n \in 0..MaxCompute : n = device_count
  BY DEF ScanInv, Types
<1>5. list = [i \in 1..n |-> devices[i]]
  <2>1. list = [i \in 1..(1 + n - 1) |-> devices[i + 1 - 1]]
    BY <1>3, DiscoveryConstants DEF enumerate_compute_devices, SubSeq
  <2>2. 1 + n - 1 = n /\ \A i \in 1..n : i + 1 - 1 = i
    BY <1>3, DiscoveryConstants
  <2> QED BY <2>1, <2>2
<1>6. \A i \in 1..n : i \in 1..MaxCompute
  BY <1>3, DiscoveryConstants
<1>7. \A i \in 1..n : list[i] \in Made
  <2>1. \A i \in 1..n : devices[i] \in Entries /\ devices[i].device_index = 0
                        /\ devices[i].kind # "Unknown"
    BY <1>2, <1>3, <1>6 DEF ScanInv, Types
  <2>2. \A e \in Entries : e.device_index = 0 /\ e.kind # "Unknown" => e \in Made
    BY DEF Entries, Made, AccKinds
  <2> QED BY <1>5, <2>1, <2>2
<1>8. list \in Seq(Made) /\ Len(list) = n
  <2>1. list \in [1..n -> Made] /\ n \in Nat
    BY <1>3, <1>5, <1>7, DiscoveryConstants
  <2>2. list \in Seq(Made)
    BY <2>1, SeqDef
  <2> QED BY <2>1, <2>2, LenProperties
<1>9. stage # "compute" /\ stale = {} => Complete(list)
  BY <1>1 DEF ListInv, Kept
<1> QED BY <1>3, <1>5, <1>8, <1>9

LEMMA ListInvCurrent == ScanInv /\ ListInv => ListIsCurrent
<1> SUFFICES ASSUME ScanInv, ListInv, guarded, Quiescent PROVE ListIsCurrent
  BY DEF ListIsCurrent
<1>1. PICK list : list = enumerate_compute_devices
  OBVIOUS
<1>2. Alone
  BY DEF Alone
<1>3. /\ list \in Seq(Made) /\ Len(list) = device_count
      /\ stage # "compute" /\ stale = {} => Complete(list)
  BY <1>1, <1>2, QuietList
<1>4. stage = "kernel" /\ stale = {} => list = Accelerators
  <2>1. Len(list) <= MaxCompute
    BY <1>3, DiscoveryConstants DEF ScanInv, Types
  <2> QED BY <1>3, <2>1, CompleteIsAccelerators
<1>5. \A i \in DOMAIN list : list[i] # ZeroEntry
  <2>1. \A i \in DOMAIN list : list[i] \in Made
    BY <1>3, ElementOfSeq, LenProperties
  <2>2. ZeroEntry \notin Made
    BY DEF ZeroEntry, Entry, Made, AccKinds
  <2> QED BY <2>1, <2>2
<1> QED BY <1>1, <1>4, <1>5 DEF ListIsCurrent

----------------------------------------------------------------------------
(***************************************************************************)
(* The lists of boot: the domains are made of the scan's list, and the     *)
(* manifest of both, while no scan can run.                                *)
(***************************************************************************)
DomRec == [domain_id : Int, associated : Int, supports_dvfs : BOOLEAN, has_thermal_sensor : BOOLEAN]

\* The domains of n devices.
DomainsOf(ds, n) ==
  /\ ds \in Seq(DomRec) /\ Len(ds) <= MaxDomains
  /\ Len(ds) = n + 1 \/ (Len(ds) = MaxDomains /\ MaxDomains <= n)
  /\ \A d \in 1..Len(ds) :
       /\ ds[d].domain_id = d - 1
       /\ ds[d].associated = NoDevice <=> d = 1
       /\ ds[d].associated < n
       /\ ds[d].supports_dvfs \/ ds[d].has_thermal_sensor => d = 1 /\ arch = "x86_64"

\* The devices, numbered.
Numbered(list) ==
  /\ list \in Seq(Entries) /\ Len(list) <= MaxCompute
  /\ \A i \in 1..Len(list) : list[i].device_index = i - 1

BootLists ==
  /\ stage \in {"manifest", "kernel"} => \E n \in 0..MaxCompute : DomainsOf(domains, n)
  /\ stage \in {"compute", "power"} => domains = <<>>
  /\ stage = "manifest" => DomainsOf(domains, device_count)
  /\ stage # "kernel" => manifest.devices = <<>>
  /\ stage = "kernel" =>
       /\ Numbered(manifest.devices) /\ manifest.domains = domains
       /\ DomainsOf(manifest.domains, Len(manifest.devices))

LEMMA BootListsFrame ==
  ASSUME BootLists, UNCHANGED <<arch, domains, manifest, stage>>, stage = "manifest" => UNCHANGED device_count
  PROVE  BootLists'
BY DEF BootLists, DomainsOf, Numbered

LEMMA InitBootLists == Init => BootLists
<1> SUFFICES ASSUME Init PROVE BootLists
  OBVIOUS
<1>1. stage = "compute" /\ domains = <<>> /\ manifest.devices = <<>>
  BY DEF Init
<1> QED BY <1>1 DEF BootLists

LEMMA TupleLen ==
  ASSUME NEW S, NEW n \in Nat, NEW f, f \in [1..n -> S]
  PROVE  f \in Seq(S) /\ Len(f) = n
<1>1. f \in Seq(S)
  BY SeqDef
<1> QED BY <1>1, LenProperties

LEMMA PowerLists == ASSUME ScanInv, BootLists, PowerThermalNew PROVE BootLists'
<1>1. PICK n \in 0..MaxCompute : n = device_count
  BY DEF ScanInv, Types
<1>2. PICK k : k = DomainCount
  OBVIOUS
<1>3. k \in Nat \ {0} /\ k <= MaxDomains /\ k <= n + 1 /\ (k = n + 1 \/ (k = MaxDomains /\ MaxDomains <= n))
  BY <1>1, <1>2, DiscoveryConstants DEF DomainCount
<1>4. PICK rapl_supported \in BOOLEAN :
        domains' = [d \in 1..k |->
                     [domain_id |-> d - 1,
                      associated |-> IF d = 1 THEN NoDevice ELSE devices[d - 1].device_index,
                      supports_dvfs |-> d = 1 /\ arch = "x86_64" /\ rapl_supported,
                      has_thermal_sensor |-> d = 1 /\ arch = "x86_64"]]
  BY <1>2 DEF PowerThermalNew
<1>5. PICK x86 \in BOOLEAN : x86 = (arch = "x86_64")
  OBVIOUS
<1>6. \A d \in 1..k : d = 1 \/ devices[d - 1].device_index = 0
  <2>1. \A d \in 1..k : d = 1 \/ d - 1 \in 1..MaxCompute
    BY <1>1, <1>3, DiscoveryConstants
  <2> QED BY <2>1 DEF ScanInv, Types
<1>7. PICK ds : ds = domains'
  OBVIOUS
<1>8. \A d \in 1..k : ds[d] = [domain_id |-> d - 1,
                                associated |-> IF d = 1 THEN NoDevice ELSE 0,
                                supports_dvfs |-> d = 1 /\ x86 /\ rapl_supported,
                                has_thermal_sensor |-> d = 1 /\ x86]
  BY <1>4, <1>5, <1>6, <1>7
<1>9. \A d \in 1..k :
        /\ ds[d] \in DomRec
        /\ ds[d].domain_id = d - 1
        /\ ds[d].associated = NoDevice <=> d = 1
        /\ ds[d].associated < n
        /\ ds[d].supports_dvfs \/ ds[d].has_thermal_sensor => d = 1 /\ arch = "x86_64"
  <2> SUFFICES ASSUME NEW d \in 1..k
               PROVE  /\ ds[d] \in DomRec
                      /\ ds[d].domain_id = d - 1
                      /\ ds[d].associated = NoDevice <=> d = 1
                      /\ ds[d].associated < n
                      /\ ds[d].supports_dvfs \/ ds[d].has_thermal_sensor => d = 1 /\ arch = "x86_64"
    OBVIOUS
  <2>1. PICK b1 \in BOOLEAN : b1 = (d = 1 /\ x86 /\ rapl_supported)
    OBVIOUS
  <2>2. PICK b2 \in BOOLEAN : b2 = (d = 1 /\ x86)
    OBVIOUS
  <2>3. PICK a : a = IF d = 1 THEN NoDevice ELSE 0
    OBVIOUS
  <2>4. a \in Int /\ (a = NoDevice <=> d = 1) /\ a < n
    BY <1>1, <1>3, <2>3, DiscoveryConstants DEF NoDevice
  <2>5. d - 1 \in Int
    BY <1>3
  <2>6. ds[d] = [domain_id |-> d - 1, associated |-> a, supports_dvfs |-> b1, has_thermal_sensor |-> b2]
    BY <1>8, <2>1, <2>2, <2>3
  <2>7. b1 \/ b2 => d = 1 /\ arch = "x86_64"
    BY <1>5, <2>1, <2>2
  <2> QED BY <2>4, <2>5, <2>6, <2>7 DEF DomRec
<1>10. ds \in [1..k -> DomRec]
  BY <1>4, <1>7, <1>9
<1>11. ds \in Seq(DomRec) /\ Len(ds) = k
  BY <1>3, <1>10, TupleLen
<1>12. DomainsOf(ds, n)
  BY <1>3, <1>9, <1>11 DEF DomainsOf
<1>13. UNCHANGED <<arch, device_count, manifest>> /\ stage = "power" /\ stage' = "manifest"
  BY DEF PowerThermalNew, fixed
<1> QED BY <1>1, <1>7, <1>12, <1>13 DEF BootLists, DomainsOf

LEMMA ManifestLists == ASSUME ScanInv, BootLists, built_hardware_manifest PROVE BootLists'
<1>1. PICK n \in 0..MaxCompute : n = device_count
  BY DEF ScanInv, Types
<1>2. PICK list : list = [i \in 1..n |-> [devices[i] EXCEPT !.device_index = i - 1]]
  OBVIOUS
<1>3. manifest' = [devices |-> list, domains |-> domains] /\ stage = "manifest" /\ stage' = "kernel"
      /\ UNCHANGED <<arch, device_count, domains>>
  BY <1>1, <1>2 DEF built_hardware_manifest, push_compute_device, fixed
<1>4. \A i \in 1..n : list[i] \in Entries /\ list[i].device_index = i - 1
  <2>1. \A i \in 1..n : i - 1 \in 0..MaxCompute /\ i \in 1..MaxCompute
    BY <1>1, DiscoveryConstants
  <2>2. \A i \in 1..n : devices[i] \in Entries
    BY <2>1 DEF ScanInv, Types
  <2>3. \A e \in Entries, j \in 0..MaxCompute :
          /\ [e EXCEPT !.device_index = j] \in Entries
          /\ [e EXCEPT !.device_index = j].device_index = j
    BY DEF Entries
  <2> QED BY <1>2, <2>1, <2>2, <2>3
<1>5. list \in Seq(Entries) /\ Len(list) = n
  <2>1. list \in [1..n -> Entries] /\ n \in Nat
    BY <1>1, <1>2, <1>4, DiscoveryConstants
  <2> QED BY <2>1, TupleLen
<1>6. Numbered(list)
  BY <1>1, <1>4, <1>5, DiscoveryConstants DEF Numbered
<1>7. DomainsOf(domains, n)
  BY <1>1, <1>3 DEF BootLists
<1>8. DomainsOf(domains, n)'
  BY <1>3, <1>7 DEF DomainsOf
<1>9. manifest'.devices = list /\ manifest'.domains = domains'
  BY <1>3
<1>10. DomainsOf(manifest.domains, Len(manifest.devices))' /\ Numbered(manifest.devices)'
  BY <1>5, <1>6, <1>8, <1>9 DEF DomainsOf, Numbered
<1>11. \E m \in 0..MaxCompute : DomainsOf(domains, m)'
  BY <1>1, <1>8
<1> QED BY <1>3, <1>10, <1>11 DEF BootLists

LEMMA NextBootLists == ScanInv /\ BootLists /\ [Next]_vars => BootLists'
<1> SUFFICES ASSUME ScanInv, BootLists, [Next]_vars PROVE BootLists'
  OBVIOUS
<1>1. CASE UNCHANGED vars
  BY <1>1, BootListsFrame DEF vars, fixed, lists
<1>2. ASSUME NEW c \in Contexts, ReplaceCount(c) PROVE BootLists'
  <2>1. stage # "power" /\ stage # "manifest" /\ UNCHANGED <<arch, domains, manifest>>
    BY <1>2 DEF ReplaceCount, fixed, ScanInv, Turns, Contexts, Idle
  <2>2. stage \in {"compute", "kernel"}
    BY <2>1 DEF ScanInv, Types
  <2>3. CASE stage = "compute"
    <3>1. stage' = "power"
      BY <1>2, <2>3 DEF ReplaceCount
    <3> QED BY <2>1, <2>3, <3>1 DEF BootLists
  <2>4. CASE stage = "kernel"
    <3>1. stage' = stage
      BY <1>2, <2>4 DEF ReplaceCount
    <3> QED BY <2>1, <2>4, <3>1, BootListsFrame
  <2> QED BY <2>2, <2>3, <2>4
<1>3. CASE \E c \in Contexts : (Step(c) /\ ~ReplaceCount(c)) \/ rescan(c)
  <2>1. UNCHANGED <<arch, domains, manifest, stage, device_count>>
    BY <1>3 DEF Step, Select, read_pci_header, ReadOriginal, WriteOnes, ReadMask, Restore,
                ReplaceDevices, rescan, fixed, lists
  <2> QED BY <2>1, BootListsFrame
<1>4. CASE Interrupt \/ Return
  BY <1>4, BootListsFrame DEF Interrupt, Return, fixed, lists
<1>5. CASE \E s \in Slots, card \in Cards \cup {Absent} : Plug(s, card)
  BY <1>5, BootListsFrame DEF Plug, fixed, lists
<1> QED BY <1>1, <1>2, <1>3, <1>4, <1>5, PowerLists, ManifestLists DEF Next

LEMMA TypesHold == ScanInv /\ BootLists => TypeOK
<1> SUFFICES ASSUME ScanInv, BootLists PROVE TypeOK
  OBVIOUS
<1>1. \A s \in Slots : bus[s] \in Cards \cup {Absent} /\ bar[s] \in BarValues
  BY DEF ScanInv, Types
<1>2. selected.at \in Slots /\ stage \in {"compute", "power", "manifest", "kernel"}
  BY DEF ScanInv, Types, Registers
<1>3. \A c \in Contexts : \/ scan[c] = Idle
                          \/ /\ scan[c].at \in Slots
                             /\ scan[c].functions \in {1, NFunctions}
                             /\ Len(scan[c].list) <= MaxCompute
  BY DEF ScanInv, Types, ScanOK, ScanRecs
<1>4. Len(domains) <= MaxDomains /\ Len(manifest.devices) <= MaxCompute
  <2>1. Len(<<>>) = 0
    OBVIOUS
  <2> QED BY <1>2, <2>1, DiscoveryConstants DEF BootLists, DomainsOf, Numbered
<1> QED BY <1>1, <1>2, <1>3, <1>4 DEF TypeOK, ScanInv, Types

\* The whole inductive invariant of Discovery.
DiscoveryInv == ScanInv /\ ListInv /\ BootLists

LEMMA DiscoveryInvariant ==
  /\ Init => DiscoveryInv
  /\ DiscoveryInv /\ [Next]_vars => DiscoveryInv'
  /\ DiscoveryInv => TypeOK /\ BarsRestored /\ ListIsCurrent
<1>1. Init => DiscoveryInv
  BY InitScanInv, InitLists, InitBootLists DEF DiscoveryInv
<1>2. DiscoveryInv /\ [Next]_vars => DiscoveryInv'
  BY NextScanInv, NextLists, NextBootLists DEF DiscoveryInv
<1>3. DiscoveryInv => TypeOK /\ BarsRestored /\ ListIsCurrent
  BY TypesHold, ScanInvBars, ListInvCurrent DEF DiscoveryInv
<1> QED BY <1>1, <1>2, <1>3

LEMMA RootTaskSteps == [RNext]_rvars => [Next]_vars
BY DEF RNext, rvars, from_raw, set_capability_token

LEMMA RootTaskKeeps == RSpec => []DiscoveryInv
<1>1. RInit => DiscoveryInv
  BY DiscoveryInvariant DEF RInit
<1>2. DiscoveryInv /\ [RNext]_rvars => DiscoveryInv'
  BY DiscoveryInvariant, RootTaskSteps
<1> QED BY <1>1, <1>2, PTL DEF RSpec

\* Types: the list of every scan stays within MAX_COMPUTE_DEVICES and the scan
\* within the bus, whatever is plugged while ComputeDiscovery walks it, the
\* domains within MAX_POWER_DOMAINS.
THEOREM TypeCorrect == RSpec => []TypeOK
BY RootTaskKeeps, DiscoveryInvariant, PTL

\* probe_bar_size leaves every BAR as it found it, although it writes all ones
\* to it and a scan in a handler may come between: on x86_64 only for a kernel
\* that masks interrupts around its calls.
THEOREM ProbesRestoreBars == RSpec => []BarsRestored
BY RootTaskKeeps, DiscoveryInvariant, PTL

\* The list that enumerate_compute_devices returns after a scan is what the bus
\* holds, in bus order and up to the capacity, and never a blank entry, for a
\* kernel that masks interrupts around its calls.
THEOREM ListMatchesBus == RSpec => []ListIsCurrent
BY RootTaskKeeps, DiscoveryInvariant, PTL

----------------------------------------------------------------------------
(***************************************************************************)
(* The Root Task's copy: the tokens it puts on devices leave the domains   *)
(* as from_raw converted them.                                             *)
(***************************************************************************)
CopyInv ==
  \/ dynamic = NotBuilt
  \/ /\ stage = "kernel"
     /\ DOMAIN dynamic = {"compute_devices", "power_domains"}
     /\ dynamic.power_domains = power_domains_from(manifest.domains, NoDevice)

LEMMA NextCopies == DiscoveryInv /\ CopyInv /\ [RNext]_rvars => CopyInv'
<1> SUFFICES ASSUME DiscoveryInv, CopyInv, [RNext]_rvars PROVE CopyInv'
  OBVIOUS
<1>1. ASSUME [Next]_vars, UNCHANGED dynamic PROVE CopyInv'
  <2>1. stage = "kernel" => stage' = "kernel" /\ UNCHANGED manifest
    BY <1>1 DEF Next, vars, Step, Select, read_pci_header, ReadOriginal, WriteOnes, ReadMask, Restore,
                ReplaceDevices, ReplaceCount, rescan, PowerThermalNew, built_hardware_manifest,
                Interrupt, Return, Plug, lists
  <2> QED BY <1>1, <2>1 DEF CopyInv, power_domains_from, PowerDomain
<1>2. CASE from_raw
  BY <1>2 DEF from_raw, CopyInv, vars, lists, power_domains_from, PowerDomain
<1>3. ASSUME NEW i, NEW token, set_capability_token(i, token) PROVE CopyInv'
  <2>1. i \in DOMAIN dynamic.compute_devices /\ UNCHANGED <<stage, manifest>>
    BY <1>3 DEF set_capability_token, vars, lists
  <2>2. dynamic # NotBuilt
    BY <2>1 DEF NotBuilt
  <2>3. PICK devs : dynamic' = [dynamic EXCEPT !.compute_devices = devs]
    BY <1>3 DEF set_capability_token
  <2>4. DOMAIN dynamic' = DOMAIN dynamic /\ dynamic'.power_domains = dynamic.power_domains
    BY <2>2, <2>3 DEF CopyInv
  <2> QED BY <2>1, <2>2, <2>4 DEF CopyInv, power_domains_from, PowerDomain
<1> QED BY <1>1, <1>2, <1>3 DEF RNext, rvars

(***************************************************************************)
(* The power and thermal queries.                                          *)
(***************************************************************************)
LEMMA FindsDomain ==
  ASSUME NEW ds, NEW n, DomainsOf(ds, n), NEW id \in Nat
  PROVE  /\ id + 1 \in 1..Len(ds) => find_domain(ds, id) = ds[id + 1] /\ ds[id + 1] # NoDomain
         /\ id + 1 \notin 1..Len(ds) => find_domain(ds, id) = NoDomain
<1>1. DOMAIN ds = 1..Len(ds) /\ Len(ds) \in Nat
  BY LenProperties DEF DomainsOf
<1>2. PICK hits : hits = {i \in DOMAIN ds : ds[i].domain_id = id}
  OBVIOUS
<1>3. hits = {i \in 1..Len(ds) : i = id + 1}
  <2>1. \A i \in 1..Len(ds) : ds[i].domain_id = i - 1
    BY DEF DomainsOf
  <2>2. \A i \in 1..Len(ds) : i - 1 = id <=> i = id + 1
    BY <1>1
  <2> QED BY <1>1, <1>2, <2>1, <2>2
<1>4. CASE id + 1 \in 1..Len(ds)
  <2>1. hits = {id + 1}
    BY <1>3, <1>4
  <2>2. Min(hits) = id + 1
    BY <2>1 DEF Min
  <2>3. ds[id + 1].domain_id = id
    BY <1>4, <1>1 DEF DomainsOf
  <2>4. NoDomain.domain_id = -1
    BY DEF NoDomain
  <2>5. ds[id + 1] # NoDomain
    BY <2>3, <2>4
  <2> QED BY <1>2, <1>4, <2>1, <2>2, <2>5 DEF find_domain
<1>5. CASE id + 1 \notin 1..Len(ds)
  <2>1. hits = {}
    BY <1>3, <1>5
  <2> QED BY <1>2, <1>5, <2>1 DEF find_domain
<1> QED BY <1>4, <1>5

LEMMA DomainFacts ==
  ASSUME NEW ds, NEW n \in Nat, DomainsOf(ds, n)
  PROVE  /\ Len(ds) \in Nat \ {0} /\ DOMAIN ds = 1..Len(ds)
         /\ \A d \in 1..Len(ds) : ds[d] \in DomRec
<1>1. ds \in Seq(DomRec)
  BY DEF DomainsOf
<1>2. Len(ds) \in Nat /\ DOMAIN ds = 1..Len(ds)
  BY <1>1, LenProperties
<1>3. Len(ds) # 0
  <2>1. Len(ds) = n + 1 \/ Len(ds) = MaxDomains
    BY DEF DomainsOf
  <2> QED BY <2>1, DiscoveryConstants
<1>4. \A d \in 1..Len(ds) : ds[d] \in DomRec
  BY <1>1, ElementOfSeq
<1> QED BY <1>2, <1>3, <1>4

\* What read_temperature returns: a temperature only of the CPU package, on
\* x86_64, from a reading that is valid.
LEMMA ReadsTemperature ==
  ASSUME NEW ds, NEW n \in Nat, DomainsOf(ds, n), NEW id \in Nat, NEW therm \in ThermStatus,
         NEW temp, temp = read_temperature(arch, ds, id, therm, Tcc)
  PROVE  /\ temp.result # "unreachable"
         /\ temp.result = "Ok" <=> id = 0 /\ ds[1].has_thermal_sensor /\ therm.valid
         /\ temp.result = "Ok" => temp.value = Tcc - therm.readout
<1>1. Len(ds) \in Nat \ {0} /\ \A d \in 1..Len(ds) : ds[d] \in DomRec
  BY DomainFacts
<1>2. PICK domain : domain = find_domain(ds, id)
  OBVIOUS
<1>3. temp = CASE domain = NoDomain -> Bad("InvalidPowerDomain")
               [] domain # NoDomain /\ ~domain.has_thermal_sensor -> Bad("ThermalSensorUnavailable")
               [] OTHER -> IF arch # "x86_64" THEN Unreachable
                           ELSE IF ~therm.valid THEN Bad("ThermalSensorUnavailable")
                           ELSE Good(Tcc - therm.readout)
  BY <1>2 DEF read_temperature
<1>4. CASE id + 1 \notin 1..Len(ds)
  <2>1. domain = NoDomain /\ id # 0
    BY <1>1, <1>2, <1>4, FindsDomain
  <2>2. temp = Bad("InvalidPowerDomain")
    BY <1>3, <2>1
  <2> QED BY <2>1, <2>2 DEF Bad
<1>5. CASE id + 1 \in 1..Len(ds)
  <2>1. domain = ds[id + 1] /\ domain # NoDomain
    BY <1>2, <1>5, FindsDomain
  <2>2. domain.has_thermal_sensor => id + 1 = 1 /\ arch = "x86_64"
    BY <1>5, <2>1 DEF DomainsOf
  <2>3. id = 0 => domain = ds[1]
    BY <2>1
  <2>4. CASE ~domain.has_thermal_sensor
    <3>1. temp = Bad("ThermalSensorUnavailable")
      BY <1>3, <2>1, <2>4
    <3> QED BY <2>3, <2>4, <3>1 DEF Bad
  <2>5. CASE domain.has_thermal_sensor
    <3>1. id = 0 /\ arch = "x86_64"
      BY <2>2, <2>5
    <3>2. temp = IF ~therm.valid THEN Bad("ThermalSensorUnavailable") ELSE Good(Tcc - therm.readout)
      BY <1>3, <2>1, <2>5, <3>1
    <3>3. CASE therm.valid
      <4>1. temp.result = "Ok" /\ temp.value = Tcc - therm.readout
        BY <3>2, <3>3 DEF Good
      <4> QED BY <2>3, <2>5, <3>1, <3>3, <4>1
    <3>4. CASE ~therm.valid
      BY <3>2, <3>4 DEF Bad
    <3> QED BY <3>3, <3>4
  <2> QED BY <2>4, <2>5
<1> QED BY <1>4, <1>5

\* What the two DVFS queries return.
LEMMA ReadsDvfs ==
  ASSUME NEW ds, NEW n \in Nat, DomainsOf(ds, n), NEW id \in Nat, NEW therm \in ThermStatus,
         NEW temp, temp = read_temperature(arch, ds, id, therm, Tcc),
         NEW state, state = read_dvfs_state(arch, ds, id, therm, Tcc),
         NEW request, request = request_dvfs(arch, ds, id)
  PROVE  /\ state.result # "unreachable" /\ request.result # "unreachable"
         /\ state.result = "Ok" => state.value = (temp.result = "Ok" /\ temp.value >= Tcc)
<1>1. PICK domain : domain = find_domain(ds, id)
  OBVIOUS
<1>2. PICK hot : hot = (temp.result = "Ok" /\ temp.value >= Tcc)
  OBVIOUS
<1>3. state = CASE domain = NoDomain -> Bad("InvalidPowerDomain")
                [] domain # NoDomain /\ ~domain.supports_dvfs -> Bad("DvfsUnsupported")
                [] OTHER -> IF arch # "x86_64" THEN Unreachable ELSE Good(hot)
  BY <1>1, <1>2 DEF read_dvfs_state
<1>4. request = CASE domain = NoDomain -> Bad("InvalidPowerDomain")
                  [] domain # NoDomain /\ ~domain.supports_dvfs -> Bad("DvfsUnsupported")
                  [] OTHER -> IF arch = "x86_64" THEN Good(0) ELSE Unreachable
  BY <1>1 DEF request_dvfs
<1>5. domain = NoDomain \/ (domain # NoDomain /\ (domain.supports_dvfs => arch = "x86_64"))
  <2>1. CASE id + 1 \in 1..Len(ds)
    <3>1. domain = ds[id + 1] /\ domain # NoDomain
      BY <1>1, <2>1, FindsDomain
    <3> QED BY <2>1, <3>1 DEF DomainsOf
  <2>2. CASE id + 1 \notin 1..Len(ds)
    BY <1>1, <2>2, FindsDomain
  <2> QED BY <2>1, <2>2
<1>6. CASE domain = NoDomain
  <2>1. state = Bad("InvalidPowerDomain") /\ request = Bad("InvalidPowerDomain")
    BY <1>3, <1>4, <1>6
  <2> QED BY <2>1 DEF Bad
<1>7. CASE domain # NoDomain /\ ~domain.supports_dvfs
  <2>1. state = Bad("DvfsUnsupported") /\ request = Bad("DvfsUnsupported")
    BY <1>3, <1>4, <1>7
  <2> QED BY <2>1 DEF Bad
<1>8. CASE domain # NoDomain /\ domain.supports_dvfs
  <2>1. state = Good(hot) /\ request = Good(0)
    BY <1>3, <1>4, <1>5, <1>8
  <2>2. state.result = "Ok" /\ request.result = "Ok" /\ state.value = hot
    BY <2>1 DEF Good
  <2> QED BY <1>2, <2>2
<1> QED BY <1>6, <1>7, <1>8

LEMMA QueriesHold == ASSUME DiscoveryInv, CopyInv PROVE QueriesSafe
<1> SUFFICES ASSUME stage = "kernel", NEW therm \in ThermStatus, NEW threshold \in 0..Tcc,
                    NEW hot, hot = domains_above_threshold(arch, domains, threshold, therm, Tcc)
             PROVE  /\ \A id \in 0..MaxDomains :
                         LET temp == read_temperature(arch, domains, id, therm, Tcc)
                             state == read_dvfs_state(arch, domains, id, therm, Tcc) IN
                         /\ "unreachable" \notin {temp.result, state.result,
                                                  request_dvfs(arch, domains, id).result}
                         /\ id \in hot <=> temp.result = "Ok" /\ temp.value >= threshold
                         /\ state.result = "Ok" /\ state.value => therm.valid /\ id \in hot
                    /\ ~therm.valid => hot = {}
                    /\ Built => hot \subseteq
                         {dynamic.power_domains[d].domain_id :
                            d \in {e \in DOMAIN dynamic.power_domains :
                                     dynamic.power_domains[e].associated = NoValue}}
  BY DEF QueriesSafe
<1>1. PICK n \in Nat : DomainsOf(domains, n)
  <2>1. \A m \in 0..MaxCompute : m \in Nat
    BY DiscoveryConstants
  <2> QED BY <2>1 DEF DiscoveryInv, BootLists
<1>2. PICK ds : ds = domains
  OBVIOUS
<1>3. DomainsOf(ds, n)
  BY <1>1, <1>2
<1>4. Len(ds) \in Nat \ {0} /\ DOMAIN ds = 1..Len(ds) /\ ds[1].domain_id = 0 /\ ds[1].associated = NoDevice
  <2>1. Len(ds) \in Nat \ {0} /\ DOMAIN ds = 1..Len(ds)
    BY <1>3, DomainFacts
  <2>2. 1 \in 1..Len(ds) /\ 1 - 1 = 0
    BY <2>1
  <2> QED BY <1>3, <2>1, <2>2 DEF DomainsOf
<1>5. PICK first : first = read_temperature(arch, ds, 0, therm, Tcc)
  OBVIOUS
<1>6. /\ first.result = "Ok" <=> ds[1].has_thermal_sensor /\ therm.valid
      /\ first.result = "Ok" => first.value = Tcc - therm.readout
  BY <1>3, <1>5, ReadsTemperature
\* Only the CPU package is ever above the threshold.
<1>7. \/ hot = {0} /\ first.result = "Ok" /\ first.value >= threshold
      \/ hot = {} /\ ~(first.result = "Ok" /\ first.value >= threshold)
  <2>1. hot = {ds[d].domain_id : d \in {e \in DOMAIN ds :
                 /\ ds[e].has_thermal_sensor
                 /\ read_temperature(arch, ds, ds[e].domain_id, therm, Tcc).result = "Ok"
                 /\ read_temperature(arch, ds, ds[e].domain_id, therm, Tcc).value >= threshold}}
    BY <1>2 DEF domains_above_threshold
  <2>2. \A e \in DOMAIN ds : ds[e].has_thermal_sensor => e = 1
    BY <1>3, <1>4 DEF DomainsOf
  <2>3. 1 \in DOMAIN ds
    BY <1>4
  <2>4. hot = {ds[d].domain_id : d \in {e \in {1} :
                 ds[1].has_thermal_sensor /\ first.result = "Ok" /\ first.value >= threshold}}
    BY <1>4, <1>5, <2>1, <2>2, <2>3
  <2>5. CASE first.result = "Ok" /\ first.value >= threshold
    BY <1>4, <1>6, <2>4, <2>5
  <2>6. CASE ~(first.result = "Ok" /\ first.value >= threshold)
    BY <2>4, <2>6
  <2> QED BY <2>5, <2>6
<1>8. \A id \in 0..MaxDomains :
        LET temp == read_temperature(arch, domains, id, therm, Tcc)
            state == read_dvfs_state(arch, domains, id, therm, Tcc) IN
        /\ "unreachable" \notin {temp.result, state.result, request_dvfs(arch, domains, id).result}
        /\ id \in hot <=> temp.result = "Ok" /\ temp.value >= threshold
        /\ state.result = "Ok" /\ state.value => therm.valid /\ id \in hot
  <2> SUFFICES ASSUME NEW id \in 0..MaxDomains,
                      NEW temp, temp = read_temperature(arch, ds, id, therm, Tcc),
                      NEW state, state = read_dvfs_state(arch, ds, id, therm, Tcc),
                      NEW request, request = request_dvfs(arch, ds, id)
               PROVE  /\ "unreachable" \notin {temp.result, state.result, request.result}
                      /\ id \in hot <=> temp.result = "Ok" /\ temp.value >= threshold
                      /\ state.result = "Ok" /\ state.value => therm.valid /\ id \in hot
    BY <1>2
  <2>1. id \in Nat
    BY DiscoveryConstants
  <2>2. /\ temp.result # "unreachable"
        /\ temp.result = "Ok" <=> id = 0 /\ ds[1].has_thermal_sensor /\ therm.valid
        /\ temp.result = "Ok" => temp.value = Tcc - therm.readout
    BY <1>3, <2>1, ReadsTemperature
  <2>3. /\ state.result # "unreachable" /\ request.result # "unreachable"
        /\ state.result = "Ok" => state.value = (temp.result = "Ok" /\ temp.value >= Tcc)
    BY <1>3, <2>1, ReadsDvfs
  <2>4. id = 0 => temp = first
    BY <1>5
  <2>5. id \in hot <=> temp.result = "Ok" /\ temp.value >= threshold
    BY <1>7, <2>2, <2>4
  <2>6. ASSUME state.result = "Ok", state.value PROVE therm.valid /\ id \in hot
    <3>1. temp.result = "Ok" /\ temp.value >= Tcc
      BY <2>3, <2>6
    <3>2. temp.value \in Int
      <4>1. Tcc \in Nat /\ therm.readout \in Nat
        BY RootTaskAssumption DEF ThermStatus
      <4> QED BY <2>2, <3>1, <4>1
    <3>3. temp.value >= threshold
      BY <3>1, <3>2, RootTaskAssumption
    <3> QED BY <2>2, <2>5, <3>1, <3>3
  <2> QED BY <2>2, <2>3, <2>5, <2>6
<1>9. ~therm.valid => hot = {}
  BY <1>6, <1>7
<1>10. ASSUME dynamic # NotBuilt
       PROVE  hot \subseteq {dynamic.power_domains[d].domain_id :
                               d \in {e \in DOMAIN dynamic.power_domains :
                                        dynamic.power_domains[e].associated = NoValue}}
  <2>1. manifest.domains = ds
    BY <1>2 DEF DiscoveryInv, BootLists
  <2>2. dynamic.power_domains = power_domains_from(ds, NoDevice)
    BY <1>10, <2>1 DEF CopyInv
  <2>3. PICK ps : ps = dynamic.power_domains
    OBVIOUS
  <2>4. DOMAIN ps = DOMAIN ds /\ ps[1] = PowerDomain(ds[1], NoDevice) /\ 1 \in DOMAIN ds
    BY <1>4, <2>2, <2>3 DEF power_domains_from
  <2>5. ps[1].domain_id = 0 /\ ps[1].associated = NoValue
    BY <1>4, <2>4 DEF PowerDomain
  <2> QED BY <1>7, <2>3, <2>4, <2>5
<1> QED BY <1>8, <1>9, <1>10 DEF Built

LEMMA RootTaskInvariant == RSpec => [](DiscoveryInv /\ CopyInv)
<1>1. RInit => DiscoveryInv /\ CopyInv
  BY DiscoveryInvariant DEF RInit, CopyInv
<1>2. DiscoveryInv /\ CopyInv /\ [RNext]_rvars => (DiscoveryInv /\ CopyInv)'
  BY DiscoveryInvariant, RootTaskSteps, NextCopies
<1> QED BY <1>1, <1>2, PTL DEF RSpec

\* No query of PowerThermal reaches unreachable!() on an architecture without a
\* backend, whatever domain it names; a reading that is not valid is not taken
\* for a temperature by read_temperature, read_dvfs_state or
\* domains_above_threshold.
THEOREM QueriesAreSafe == RSpec => []QueriesSafe
<1>1. DiscoveryInv /\ CopyInv => QueriesSafe
  BY QueriesHold
<1> QED BY <1>1, RootTaskInvariant, PTL
=============================================================================
