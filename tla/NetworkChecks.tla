---------------------------- MODULE NetworkChecks ----------------------------
(***************************************************************************)
(* The verdicts of check_ethlink, check_iblink, check_ibstat,                *)
(* check_ib_counters, check_pci and check_hca.  Checks against the manifest  *)
(* of the node turn every exception (no manifest, output that is not JSON)   *)
(* into a warning: "exception" is that outcome.                             *)
(***************************************************************************)
EXTENDS HostChecks

---------------------------------------------------------------------------
(***************************************************************************)
(* check_ethlink.  An interface of the manifest and what the host says of    *)
(* it.  MAC addresses are "own" (the permanent one of the card, as ethtool   *)
(* tells), "bond" (the one a bond lends it) or "none".                       *)
(***************************************************************************)
EthDevice ==
  [phys: BOOLEAN, ifcfg: {"none", "own", "bond"}, nmcli: {"none", "bond"},
   binding: {"none", "own"}, ethtool: {"none", "own"}, link: {"missing", "DOWN", "UP"},
   flags: BOOLEAN, mtu: BOOLEAN, speed: {"any", "right", "slow"}]

\* The configuration file, else NetworkManager's: the MAC the profile is bound
\* to, else the current one of the device.
_get_intf_ifcfg_from_nmcli(d) ==
  IF d.nmcli = "none" THEN "none"
  ELSE IF d.binding # "none" THEN d.binding ELSE d.nmcli

get_intf_ifcfg(d) ==
  IF d.ifcfg # "none" THEN d.ifcfg ELSE _get_intf_ifcfg_from_nmcli(d)

check_cfg_macaddr(ds) ==
  Graded(\E d \in ds : d.phys /\ get_intf_ifcfg(d) # d.ethtool, FALSE)

check_link_state(ds) ==
  LET up(d) == d.link = "UP" /\ d.flags IN
  Graded(\E d \in ds : d.phys /\ ~up(d), \E d \in ds : d.phys /\ ~d.mtu)

check_link_speed(ds) == Graded(FALSE, \E d \in ds : d.speed = "slow")

\* Each test is made only if the ones before it found nothing.
process_ethlink(ds) ==
  IF check_cfg_macaddr(ds) # OK THEN check_cfg_macaddr(ds)
  ELSE IF check_link_state(ds) # OK THEN check_link_state(ds)
  ELSE check_link_speed(ds)

\* The combinations TLC tries: each field once with the others in order.
EthCases ==
  LET good == [phys |-> TRUE, ifcfg |-> "own", nmcli |-> "none", binding |-> "none",
               ethtool |-> "own", link |-> "UP", flags |-> TRUE, mtu |-> TRUE,
               speed |-> "right"]
      bonded == [good EXCEPT !.ifcfg = "none", !.nmcli = "bond"]
  IN  {good, bonded, [bonded EXCEPT !.binding = "own"], [good EXCEPT !.ifcfg = "none"],
       [good EXCEPT !.phys = FALSE, !.link = "DOWN"], [good EXCEPT !.ethtool = "none"],
       [good EXCEPT !.link = "missing"], [good EXCEPT !.link = "DOWN"],
       [good EXCEPT !.flags = FALSE], [good EXCEPT !.mtu = FALSE],
       [good EXCEPT !.speed = "slow"], [good EXCEPT !.speed = "any"]}

ethlink_code(o) == IF o.raised THEN WARN ELSE process_ethlink(o.devices)

check_ethlink == Check("check_ethlink", Once,
  [o \in [raised: {FALSE}, devices: {{d, e} : d, e \in EthCases} \cup {{}}]
           \cup [raised: {TRUE}, devices: {{}}] |-> ethlink_code(o)])

---------------------------------------------------------------------------
(***************************************************************************)
(* check_iblink.  A card of the manifest and its state in sysfs; a file that *)
(* cannot be read makes every comparison with it fail.                      *)
(***************************************************************************)
IBLinkState ==
  [bound: BOOLEAN, mlx: BOOLEAN, fw: BOOLEAN, ib: BOOLEAN, active: BOOLEAN,
   state: {"4: ACTIVE", "2: INIT", "other"}, rate: BOOLEAN, operstate: BOOLEAN]

validate_ib(c) ==
  IF ~c.bound THEN {"MISBIND"}
  ELSE UNION {
    IF ~c.mlx THEN {"MLX5_MISMATCH"} ELSE {},
    IF ~c.fw THEN {"FIRMWARE_MISMATCH"} ELSE {},
    IF ~c.ib THEN {"MLX5_PROTOCOL_MISMATCH"} ELSE {},
    IF ~c.active THEN {"LINK_NOT_UP"} ELSE {},
    IF c.state = "4: ACTIVE" THEN {}
      ELSE IF c.state = "2: INIT" THEN {"LINK_IN_INIT"} ELSE {"LINK_BAD_STATE"},
    IF c.active /\ ~c.rate THEN {"LINK_RATE_MISMATCH"} ELSE {},
    IF c.state = "4: ACTIVE" /\ ~c.operstate THEN {"LINK_OPERSTATE_DOWN"} ELSE {}}

\* The issues whose value is above CRITERION_NOT_CRITICAL.
SoftIssues == {"LINK_IN_INIT", "FIRMWARE_MISMATCH"}

\* Mutant of process_iblink: the status of the last card read stands.
LastCardOnly(cards) ==
  LET issues == IF cards = {} THEN {} ELSE validate_ib(CHOOSE c \in cards : TRUE)
  IN  Graded(issues \ SoftIssues # {}, issues # {})

process_iblink(cards) ==
  LET issues == UNION {validate_ib(c) : c \in cards}
  IN  Graded(issues \ SoftIssues # {}, issues # {})

IbCases ==
  LET good == [bound |-> TRUE, mlx |-> TRUE, fw |-> TRUE, ib |-> TRUE, active |-> TRUE,
               state |-> "4: ACTIVE", rate |-> TRUE, operstate |-> TRUE]
  IN  {good, [good EXCEPT !.bound = FALSE], [good EXCEPT !.mlx = FALSE],
       [good EXCEPT !.fw = FALSE], [good EXCEPT !.ib = FALSE],
       [good EXCEPT !.active = FALSE], [good EXCEPT !.state = "2: INIT"],
       [good EXCEPT !.state = "other", !.active = FALSE], [good EXCEPT !.rate = FALSE],
       [good EXCEPT !.operstate = FALSE]}

iblink_code(o) == IF o.raised THEN WARN ELSE process_iblink(o.cards)

check_iblink == Check("check_iblink", Once,
  [o \in [raised: {FALSE}, cards: {{c, d} : c, d \in IbCases} \cup {{}}]
           \cup [raised: {TRUE}, cards: {{}}] |-> iblink_code(o)])

---------------------------------------------------------------------------
(***************************************************************************)
(* check_ibstat: the lines awk or grep leaves of ibstat, one per link.       *)
(***************************************************************************)
get_ibstat(good) ==
  shell_command({<<>>, <<good>>, <<good, good>>, <<good, "other">>}, Junk)

process_ibstat_output(o, use_physical_state) ==
  LET wanted == IF use_physical_state THEN "LinkUp" ELSE "Active"
  IN  IF Failed(o) \/ Empty(o) THEN WARN ELSE Graded(Lines(o) # {wanted}, FALSE)

check_ibstat(physical) == Check("check_ibstat", Once,
  [o \in get_ibstat(IF physical THEN "LinkUp" ELSE "Active")
     |-> process_ibstat_output(o, physical)])

(***************************************************************************)
(* check_ib_interfaces: a line is an interface; "no fields" one that the     *)
(* schema refuses, which nobody catches.                                    *)
(***************************************************************************)
get_ib_interfaces ==
  LET interfaces == {"ib up", "ib down", "other", "no fields"}
  IN  shell_command({<<>>, <<Junk>>} \cup {<<i>> : i \in interfaces}
                      \cup {<<i, j>> : i, j \in interfaces}, Junk)

process_ib_interfaces_output(o, expected) ==
  LET ib_interfaces == Cardinality({i \in DOMAIN o.text : o.text[i] = "ib up"})
  IN  IF Failed(o) \/ Empty(o) THEN WARN
      ELSE IF Junk \in Lines(o) THEN CRITICAL
      ELSE IF "no fields" \in Lines(o) THEN Raises
      ELSE Graded(ib_interfaces # expected, FALSE)

check_ib_interfaces == Check("check_ib_interfaces", Once,
  [o \in get_ib_interfaces |-> process_ib_interfaces_output(o, 1)])

(***************************************************************************)
(* check_ib_counters: the error counters of the ports that were found, as    *)
(* read; NoNumber is a counter that could not be read and is left out.       *)
(***************************************************************************)
SumOf(s) ==
  LET sum[n \in 0..Len(s)] == IF n = 0 THEN 0 ELSE sum[n - 1] + s[n]
  IN  sum[Len(s)]

port_error_total(port) ==
  SumOf([i \in DOMAIN port |-> IF port[i] = NoNumber THEN 0 ELSE port[i]])

process_ib_counters(ports, warn_threshold, crit_threshold) ==
  LET total_errors == SumOf([i \in DOMAIN ports |-> port_error_total(ports[i])])
  IN  IF ports = <<>> THEN WARN
      ELSE Graded(total_errors > crit_threshold, total_errors > warn_threshold)

\* discover_ports and read_counter: two ports of two counters; an exception
\* is no ports.
collect_port_counters ==
  {<<>>} \cup {<< <<a, b>>, <<c, d>> >> : a, b, c, d \in {NoNumber, 0, 1, 2}}

check_ib_counters == Check("check_ib_counters", Once,
  [o \in collect_port_counters |-> process_ib_counters(o, 0, 2)])

---------------------------------------------------------------------------
(***************************************************************************)
(* check_pci: the links of the devices of the manifest in order.  The loop   *)
(* stops at a missing device that topology depends on; what it has not       *)
(* looked at does not pass.                                                 *)
(***************************************************************************)
PciLink == [link: {"missing", "degraded", "good"}, topology_critical: BOOLEAN]

check_pci_state(links) ==
  LET stops == {i \in DOMAIN links : links[i].link = "missing"
                                       /\ links[i].topology_critical}
      looked == IF stops = {} THEN DOMAIN links ELSE 1..Min(stops)
      passing_counter == Cardinality({i \in looked : links[i].link = "good"})
  IN  Graded(passing_counter # Len(links), FALSE)

pci_code(o) == IF o.raised THEN WARN ELSE check_pci_state(o.links)

check_pci == Check("check_pci", Once,
  [o \in [raised: {FALSE}, links: {<<>>} \cup {<<k, l>> : k, l \in PciLink}]
           \cup [raised: {TRUE}, links: {<<>>}] |-> pci_code(o)])

---------------------------------------------------------------------------
(***************************************************************************)
(* check_hca: the number of adapters on the first line of ibv_devinfo.       *)
(***************************************************************************)
hca_code(o, expected_count) ==
  IF Failed(o) THEN WARN
  ELSE IF NotANumber(o) THEN CRITICAL
  ELSE Graded(Head(o.text) < expected_count, Head(o.text) > expected_count)

check_hca(expected_count) == Check("hca_count", Once,
  [o \in shell_command(Numbers(0..2), NoNumber) |-> hca_code(o, expected_count)])

=============================================================================
