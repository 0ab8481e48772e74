--------------------------- MODULE SystemInformation ---------------------------
(***************************************************************************)
(* What platform/linux/system_information.cpp makes of the files and lists *)
(* of Linux, as far as the status display shows it: the network interfaces *)
(* and the temperature of the processor.                                   *)
(*                                                                         *)
(* An interface name is a number, in the order of the names; an address of *)
(* getifaddrs() has a name, its flags, a family and, for AF_INET, a text.  *)
(***************************************************************************)
EXTENDS Integers, SequencesExt, FiniteSetsExt, SubSequences

NoText      == << >>
Unavailable == -1000000     \* no number was found; millidegrees

\* The zones whose temperature is that of the processor.
CpuZoneTypes == {"cpu-thermal", "cpu_thermal", "soc_thermal"}

-----------------------------------------------------------------------------
\* The entries of getifaddrs() that count: named, with an address, not loopback.
Counts(address) == address.name # 0 /\ address.family # "none" /\ ~address.loopback

Named(addresses, name) ==
  ElementsAt(addresses, {i \in DOMAIN addresses : Counts(addresses[i]) /\ addresses[i].name = name})

\* Any entry of an interface that is up and running makes it connected.
Connected(entries) == \E i \in DOMAIN entries : entries[i].up /\ entries[i].running

\* The first IPv4 address of an interface.
FirstIpv4(entries) ==
  LET ipv4 == {i \in DOMAIN entries : entries[i].family = "inet" /\ entries[i].text # NoText}
  IN  IF ipv4 = {} THEN NoText ELSE entries[Min(ipv4)].text

Interface(addresses, name) ==
  [name        |-> name,
   connected   |-> Connected(Named(addresses, name)),
   ipv4Address |-> FirstIpv4(Named(addresses, name))]

InterfaceNames(addresses) ==
  {addresses[i].name : i \in {j \in DOMAIN addresses : Counts(addresses[j])}}

\* readCurrentNetworkInterfaces(): one entry for each name, sorted by name.
NetworkInterfaces(addresses) ==
  LET names == InterfaceNames(addresses)
  IN  [n \in 1..Cardinality(names) |-> Interface(addresses, Nth(names, n))]

-----------------------------------------------------------------------------
\* readUnsignedInteger(): a missing or empty file, a minus sign and anything that is not
\* a number to its end are no value.
ReadUnsignedInteger(contents) ==
  IF contents.kind = "number" THEN contents.value ELSE Unavailable

\* readCpuTemperature(): the zone of the processor, or else the first zone with a value.
CpuTemperature(zones) ==
  LET readable == {i \in DOMAIN zones : zones[i].isZone /\ ReadUnsignedInteger(zones[i].temp) # Unavailable}
      cpu      == {i \in readable : zones[i].type \in CpuZoneTypes}
  IN  IF readable = {} THEN Unavailable
      ELSE ReadUnsignedInteger(zones[Min(IF cpu # {} THEN cpu ELSE readable)].temp)
=============================================================================
