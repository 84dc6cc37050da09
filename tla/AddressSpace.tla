---------------------------- MODULE AddressSpace ----------------------------
(***************************************************************************)
(* What hal_core::memory::MemoryBootstrap::setup_identity_mapping promises *)
(* its caller: the pages of the region are mapped one after the other,     *)
(* lowest first, each to itself; Ok is returned only when all of them are; *)
(* Err leaves a prefix of the region mapped and touches no other page.     *)
(***************************************************************************)
EXTENDS Integers

CONSTANTS VPages, Unmapped

VARIABLES
  space,     \* what the hardware translates each virtual page to
  todo,      \* the pages of the current call that are not mapped yet
  flags,     \* the attributes of the current call
  outcome    \* "none" before the first call, "running", "Ok" or "Err"

vars == <<space, todo, flags, outcome>>

Init ==
  /\ space = [v \in VPages |-> Unmapped]
  /\ todo = {}
  /\ outcome = "none"

Request ==
  /\ outcome # "running"
  /\ todo' \subseteq VPages
  /\ outcome' = "running"
  /\ UNCHANGED space

Refuse == outcome # "running" /\ outcome' = "Err" /\ UNCHANGED <<space, todo>>

MapLowest ==
  /\ outcome = "running"
  /\ \E p \in todo :
       /\ \A q \in todo : p <= q
       /\ space' = [space EXCEPT ![p] = [page |-> p, flags |-> flags]]
       /\ todo' = todo \ {p}
  /\ UNCHANGED <<flags, outcome>>

Succeed ==
  /\ outcome = "running" /\ todo = {}
  /\ outcome' = "Ok"
  /\ UNCHANGED <<space, todo, flags>>

Fail ==
  /\ outcome = "running" /\ todo # {}
  /\ outcome' = "Err" /\ todo' = {}
  /\ UNCHANGED <<space, flags>>

Next == Request \/ Refuse \/ MapLowest \/ Succeed \/ Fail

Spec == Init /\ [][Next]_vars
=============================================================================
