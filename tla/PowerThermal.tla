---------------------------- MODULE PowerThermal ----------------------------
(***************************************************************************)
(* The queries of hal_core::power::PowerThermal over a list of domains, as *)
(* operators.  A query reads registers that change by themselves: therm is *)
(* IA32_THERM_STATUS at that moment, its valid bit and its readout in      *)
(* degrees below tcc.  Only x86_64 has a backend; the other architectures  *)
(* end in unreachable!() past the checks.                                  *)
(***************************************************************************)
EXTENDS Integers, Sequences, FiniteSetsExt

Good(v) == [result |-> "Ok", value |-> v]
Bad(error) == [result |-> error, value |-> 0]
Unreachable == [result |-> "unreachable", value |-> 0]

NoDomain == [domain_id |-> -1]

\* The first domain of that id.
find_domain(domains, id) ==
  LET hits == {i \in DOMAIN domains : domains[i].domain_id = id}
  IN IF hits = {} THEN NoDomain ELSE domains[Min(hits)]

\* Slip: a reading that is not valid counts as zero.
read_any_temperature(arch, domains, id, therm, tcc) ==
  LET domain == find_domain(domains, id) IN
  CASE domain = NoDomain -> Bad("InvalidPowerDomain")
    [] domain # NoDomain /\ ~domain.has_thermal_sensor -> Bad("ThermalSensorUnavailable")
    [] OTHER -> IF arch # "x86_64" THEN Unreachable ELSE Good(tcc - therm.readout)

read_temperature(arch, domains, id, therm, tcc) ==
  LET domain == find_domain(domains, id) IN
  CASE domain = NoDomain -> Bad("InvalidPowerDomain")
    [] domain # NoDomain /\ ~domain.has_thermal_sensor -> Bad("ThermalSensorUnavailable")
    [] OTHER -> IF arch # "x86_64" THEN Unreachable
                ELSE IF ~therm.valid THEN Bad("ThermalSensorUnavailable")
                ELSE Good(tcc - therm.readout)

\* What is read is whether the domain is throttled: a temperature that cannot
\* be read counts as cool.
read_dvfs_state(arch, domains, id, therm, tcc) ==
  LET domain == find_domain(domains, id)
      temp == read_temperature(arch, domains, id, therm, tcc) IN
  CASE domain = NoDomain -> Bad("InvalidPowerDomain")
    [] domain # NoDomain /\ ~domain.supports_dvfs -> Bad("DvfsUnsupported")
    [] OTHER -> IF arch # "x86_64" THEN Unreachable
                ELSE Good(temp.result = "Ok" /\ temp.value >= tcc)

\* The checks, and on x86_64 nothing behind them.
request_dvfs(arch, domains, id) ==
  LET domain == find_domain(domains, id) IN
  CASE domain = NoDomain -> Bad("InvalidPowerDomain")
    [] domain # NoDomain /\ ~domain.supports_dvfs -> Bad("DvfsUnsupported")
    [] OTHER -> IF arch = "x86_64" THEN Good(0) ELSE Unreachable

\* DomainsAboveThresholdIter, run to its end, as the ids it yields: each domain
\* with a sensor is looked up again by its id.
domains_above_threshold(arch, domains, threshold, therm, tcc) ==
  LET temp(d) == read_temperature(arch, domains, domains[d].domain_id, therm, tcc)
      hot(d) == /\ domains[d].has_thermal_sensor
                /\ temp(d).result = "Ok"
                /\ temp(d).value >= threshold
  IN {domains[d].domain_id : d \in {e \in DOMAIN domains : hot(e)}}
=============================================================================
