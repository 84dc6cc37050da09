-------------------------- MODULE DynamicManifest --------------------------
(***************************************************************************)
(* hal_manifest::dynamic, the heap-backed manifest that the Root Task      *)
(* builds from the raw one: the conversions and the queries, as operators. *)
(* Sums and enumerations that are equal on both sides (kinds, vendors,     *)
(* flags) keep their names; an Option is Some(v) or NoValue.               *)
(***************************************************************************)
EXTENDS Integers, Sequences

NoValue == [none |-> TRUE]
Some(v) == [some |-> v]

\* MemoryRegion::from, MemoryRegionKind::from.
MemoryRegion(raw) ==
  [page |-> raw.page, length |-> raw.length, kind |-> raw.kind, behind_iommu |-> raw.behind_iommu]

\* ComputeDevice::from_raw: no token yet.
ComputeDevice(raw) ==
  [kind |-> raw.kind,
   dedicated_memory |-> IF raw.has_dedicated_memory THEN Some("bytes") ELSE NoValue,
   device_index |-> raw.device_index,
   capability_token |-> NoValue]

\* PowerDomain::from: NO_ASSOCIATED_DEVICE becomes None.
PowerDomain(raw, no_associated_device) ==
  [domain_id |-> raw.domain_id,
   associated |-> IF raw.associated = no_associated_device THEN NoValue ELSE Some(raw.associated),
   supports_dvfs |-> raw.supports_dvfs,
   has_thermal_sensor |-> raw.has_thermal_sensor]

memory_regions_from(raw) == [i \in DOMAIN raw |-> MemoryRegion(raw[i])]
compute_devices_from(raw) == [i \in DOMAIN raw |-> ComputeDevice(raw[i])]
power_domains_from(raw, none) == [i \in DOMAIN raw |-> PowerDomain(raw[i], none)]

\* total_usable_memory_bytes, in pages.
total_usable_memory(regions) ==
  LET sum[n \in 0..Len(regions)] ==
        IF n = 0 THEN 0
        ELSE sum[n - 1] + (IF regions[n].kind = "Usable" THEN regions[n].length ELSE 0)
  IN sum[Len(regions)]

\* The devices the iterator yields, as their places in the list: it keeps the order.
compute_devices_of_kind(devices, kind) == {i \in DOMAIN devices : devices[i].kind = kind}
=============================================================================
