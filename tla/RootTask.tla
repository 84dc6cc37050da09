------------------------------ MODULE RootTask ------------------------------
(***************************************************************************)
(* The layers above, on the machine of Discovery: the Root Task converts   *)
(* the raw manifest once (HardwareManifest::from_raw) and puts tokens on   *)
(* devices of its copy (set_capability_token); the scheduler and the       *)
(* profile policy query power and temperature.  Meanwhile cards come and   *)
(* go and the HAL rescans.                                                 *)
(***************************************************************************)
EXTENDS Discovery, DynamicManifest, PowerThermal

CONSTANTS
  Tcc,           \* tcc_activation_temp_c
  Readouts,      \* digital readouts of IA32_THERM_STATUS
  Tokens         \* the capability tokens the Security Broker mints

ASSUME RootTaskAssumption == Tcc \in Nat /\ Readouts \subseteq Nat

VARIABLE dynamic     \* HardwareManifest, or NotBuilt

rvars == <<vars, dynamic>>

NotBuilt == [compute_devices |-> <<>>, power_domains |-> <<>>]

\* HardwareManifest::from_raw.
from_raw ==
  /\ stage = "kernel" /\ dynamic = NotBuilt
  /\ dynamic' = [compute_devices |-> compute_devices_from(manifest.devices),
                 power_domains |-> power_domains_from(manifest.domains, NoDevice)]
  /\ UNCHANGED vars

\* set_capability_token, on any device of the copy, with any token.
set_capability_token(i, token) ==
  /\ i \in DOMAIN dynamic.compute_devices
  /\ dynamic' = [dynamic EXCEPT !.compute_devices[i].capability_token = Some(token)]
  /\ UNCHANGED vars

RInit == Init /\ dynamic = NotBuilt

RNext ==
  \/ Next /\ UNCHANGED dynamic
  \/ from_raw
  \/ \E i \in 1..MaxCompute, token \in Tokens : set_capability_token(i, token)

RSpec ==
  /\ RInit /\ [][RNext]_rvars
  /\ \A c \in Contexts : WF_rvars(Step(c) /\ UNCHANGED dynamic)
  /\ WF_rvars(PowerThermalNew /\ UNCHANGED dynamic)
  /\ WF_rvars(built_hardware_manifest /\ UNCHANGED dynamic)

----------------------------------------------------------------------------
Built == dynamic # NotBuilt

ThermStatus == [valid : BOOLEAN, readout : Readouts]

\* Whatever the thermal registers hold when no rescan runs: no query on any
\* domain, listed or not, reaches unreachable!() on an architecture without a
\* backend; a sensor whose reading is not valid is not reported as hot, and not
\* as throttled; every domain in domains_above_threshold is one that
\* read_temperature calls hot, and the raw and the dynamic manifest agree with
\* the driver on who has one.
QueriesSafe ==
  stage = "kernel" /\ Quiescent =>
    \A therm \in ThermStatus, threshold \in 0..Tcc :
      LET hot == domains_above_threshold(arch, domains, threshold, therm, Tcc) IN
      /\ \A id \in 0..MaxDomains :
           LET temp == read_temperature(arch, domains, id, therm, Tcc)
               state == read_dvfs_state(arch, domains, id, therm, Tcc) IN
           /\ "unreachable" \notin {temp.result, state.result,
                                    request_dvfs(arch, domains, id).result}
           /\ id \in hot <=> temp.result = "Ok" /\ temp.value >= threshold
           /\ state.result = "Ok" /\ state.value => therm.valid /\ id \in hot
      /\ ~therm.valid => hot = {}
      /\ Built => hot \subseteq
           {dynamic.power_domains[d].domain_id :
              d \in {e \in DOMAIN dynamic.power_domains :
                       dynamic.power_domains[e].associated = NoValue}}
=============================================================================
