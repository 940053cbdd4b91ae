--------------------------- MODULE NetlistChecks ---------------------------
(***************************************************************************)
(* The checks of SchConnectionsStep that accept or reject a netlist, the   *)
(* choice of the failure to repair next, and the scope of that repair.     *)
(*                                                                         *)
(* A failed check keeps the references its message names and the names it  *)
(* spells (nets, pins, labels): the repair's scope is computed from them.  Of the functional checks the     *)
(* model keeps those the normalizers work for; the others (LED, RS-485,    *)
(* analog inputs, power multiplexers, backfeed, input protection, debug    *)
(* and bounded connectors) only reject more.                               *)
(***************************************************************************)
EXTENDS Netlist

CONSTANT MaxAdded   \* budget of parts the connection step may add

Check(name, bad, refs, said) ==
  [name |-> name, fails |-> bad, refs |-> refs, said |-> said]
AboutPins(name, X) == Check(name, X # {}, {x[1] : x \in X}, {})
AboutNets(name, M) == Check(name, M # {}, {}, M)
AboutParts(name, R) == Check(name, R # {}, R, {})
AboutNamed(b, name, X, M) ==
  Check(name, X # {}, {x[1] : x \in X}, {PinName(b, x) : x \in X} \cup M)

\* Reports that list the nets of the parts they are about, of others they name too.
AboutWiring(b, n, name, R, others) ==
  Check(name, R # {}, R \cup others, UNION {PartNets(b, n, r) : r \in R})

AllNumbers(b, n) == UNION {{<<r, i>> : i \in Numbers(b, r)} : r \in Known(b, n)}
NetPinsOf(n) == UNION {n.nets[m] : m \in DOMAIN n.nets}
TwoPins(b, R) == {r \in R : Cardinality(Numbers(b, r)) = 2}

(***************************************************************************)
(* Checks of the netlist itself.                                           *)
(***************************************************************************)
Singles(n) == {m \in DOMAIN n.nets : Cardinality(n.nets[m]) < 2}
LogicalShorts(n) ==
  {p \in NetPinsOf(n) : Cardinality({m \in DOMAIN n.nets : p \in n.nets[m]}) > 1}
UnknownRefs(b, n) == {p \in NetPinsOf(n) : RefOf(p) \notin Known(b, n)}
Unresolved(b, n) ==
  {p \in NetPinsOf(n) : Pins(b, RefOf(p)) # <<>> /\ Resolve(b, p) = None}
PhysicalShorts(b, n) == {x \in Connected(b, n) : Cardinality(NetsOf(b, n, x)) > 1}
SinglePhysical(b, n) ==
  {m \in DOMAIN n.nets \ Singles(n) : Cardinality(Resolved(b, n.nets[m])) < 2}

Polarity(b, n) ==
  {x \in Connected(b, n) :
     \/ /\ NetsOf(b, n, x) \cap Grounds(b, n) # {}
        /\ PinType(b, x) = "power_in" /\ ~PinHas(b, x, "gnd")
     \/ NetsOf(b, n, x) \cap n.supply # {} /\ PinHas(b, x, "gnd")}

Driven(b, n, m, type) == {x \in Resolved(b, n.nets[m]) : PinType(b, x) = type}
Contended(b, n) ==
  {m \in DOMAIN n.nets : \E x, y \in Driven(b, n, m, "power_out") :
     x[1] # y[1] \/ PinName(b, x) # PinName(b, y)}
Undriven(b, n) ==
  {m \in DOMAIN n.nets \ (n.supply \cup Grounds(b, n)) :
     Driven(b, n, m, "power_in") # {} /\ Driven(b, n, m, "power_out") = {}}

UnresolvedOpen(b, n) == {p \in n.nc : Resolve(b, p) = None}
OpenButConnected(b, n) == Connected(b, n) \cap Open(b, n)
UnusedParts(b, n) ==
  {r \in Known(b, n) : Pins(b, r) # <<>> /\ ~\E x \in Connected(b, n) : x[1] = r}
Unaccounted(b, n) ==
  {x \in AllNumbers(b, n) \ (Connected(b, n) \cup Open(b, n)) : ~LibraryNoConnect(b, x)}
Abandoned(b, n) ==
  {x \in Open(b, n) \cap AllNumbers(b, n) :
     /\ Size(b, x[1]) <= 4 /\ ~LibraryNoConnect(b, x)
     /\ ~Has(b, x[1], {"connector"}) /\ ~Has(b, x[1], {"J"})}

\* Parts the step added: grounded, within the budget, and completely wired.
AddedUnused(n) == {r \in n.added : ~\E p \in NetPinsOf(n) : RefOf(p) = r}
AddedIncomplete(b, n) ==
  {r \in TwoPins(b, n.added) : ~({r} \X Numbers(b, r)) \subseteq Connected(b, n)}

(***************************************************************************)
(* Functional checks, over the selected and the added parts.               *)
(***************************************************************************)
SelfShorted(b, n) ==
  {r \in TwoPins(b, Known(b, n)) :
     /\ ({r} \X Numbers(b, r)) \subseteq Connected(b, n)
     /\ Single(PartNets(b, n, r))}

RailClass(b, n) ==
  {x \in AllNumbers(b, n) :
     \/ PinHas(b, x, "gnd") /\ NetsOf(b, n, x) \cap Grounds(b, n) = {}
     \/ PinHas(b, x, "vdd") /\ NetsOf(b, n, x) \cap Supplies(b, n) = {}}

CriticalOpen(b, n) ==
  {x \in Open(b, n) \cap AllNumbers(b, n) :
     /\ Has(b, x[1], {"power_ic"}) /\ ~LibraryNoConnect(b, x)
     /\ PinType(b, x) \in {"power_in", "power_out"} \/ PinHas(b, x, "critical")}

CrystalBad(b, n) ==
  {r \in TwoPins(b, Known(b, n)) : Has(b, r, {"crystal"}) /\
     ~(/\ Cardinality(PartNets(b, n, r)) = 2
       /\ PartNets(b, n, r) \cap (Grounds(b, n) \cup Supplies(b, n)) = {})}

OnMcu(b, n, m, flag) ==
  \E x \in Resolved(b, NetPins(n, m)) :
    Has(b, x[1], {"mcu"}) /\ (flag = "any" \/ PinHas(b, x, flag))

\* One pin of each class of the ten: supply, ground, signal, SWO, reserved.
SwdBad(b, n) ==
  {r \in Known(b, n) : Has(b, r, {"swd", "ten"}) /\
     LET net(i) == NetsOf(b, n, <<r, i>>)
         open(i) == <<r, i>> \in Open(b, n)
     IN  ~(/\ net("1") # {} /\ net("1") \subseteq Supplies(b, n)
           /\ net("3") # {} /\ net("3") \subseteq Grounds(b, n)
           /\ net("2") # {}
           /\ \A m \in net("2") : \/ OnMcu(b, n, m, "swdio")
                                  \/ m \in b.swdio /\ OnMcu(b, n, m, "any")
           /\ IF net("6") = {} THEN open("6")
              ELSE \A m \in net("6") : \/ OnMcu(b, n, m, "swo")
                                       \/ m \in b.swo /\ OnMcu(b, n, m, "any")
           /\ \A i \in {"7", "8"} : net(i) = {} /\ open(i))}

\* With no bus named by the requirement, the roles of the parts name it.
Terminated(b, n) ==
  LET with(tags) == {r \in Known(b, n) : Has(b, r, tags)}
      buses == IF b.terminate # {} THEN b.terminate
               ELSE {u \in {"can", "rs485"} : with({u, "termination"}) # {}}
  IN  \A u \in buses : \E r \in with({u, "termination", "120R"}),
                          s \in with({u, "termination", "selector"}) :
        \E e \in SUBSET (PartNets(b, n, r) \cup PartNets(b, n, s)) :
          /\ r # s /\ SeriesPair(b, n, r, s, e)
          /\ e \cap Grounds(b, n) = {} /\ e = b.pair[u]

MicroSdBad(b, n) ==
  {r \in Known(b, n) : b.spi /\ Has(b, r, {"microsd", "socket"}) /\
     LET net(l) == NamedNet(b, n, r, <<l>>)
         signal(m) == /\ m # None /\ m \notin Grounds(b, n) \cup Supplies(b, n)
                      /\ OnMcu(b, n, m, "any")
         dat(l) == Physical(b, <<r, l>>)
     IN  ~(/\ signal(net("CMD")) /\ signal(net("DAT0"))
           /\ \A l \in {"DAT1", "DAT2"} : dat(l)[2] # None =>
                /\ NetsOf(b, n, dat(l)) = {} => dat(l) \in Open(b, n)
                /\ \A m \in NetsOf(b, n, dat(l)) : ~OnMcu(b, n, m, "any"))}

\* Reset and boot parts sit between the control pin's net and the right rail.
ControlBad(b, n) ==
  LET mcu == {r \in Known(b, n) : Has(b, r, {"mcu"})}
      net(u, kind) == NamedNet(b, n, u, b.control[kind])
      rail(r) == IF Grounding(b, r) THEN Grounds(b, n) ELSE Supplies(b, n)
      ok(u, r, kind) ==
        /\ Cardinality(PartNets(b, n, r)) = 2
        /\ net(u, kind) \in PartNets(b, n, r)
        /\ PartNets(b, n, r) \cap rail(r) # {}
  IN  {r \in Known(b, n) : \E u \in mcu \ {r}, kind \in {"reset", "boot"} :
         Has(b, r, {kind}) /\ ~Has(b, r, {"bootstrap"}) /\ ~ok(u, r, kind)}

UsbBad(b, n) ==
  {r \in Known(b, n) : Has(b, r, {"usb", "connector"}) /\
     \E c \in {"CC1", "CC2"} :
       LET rds == {s \in Known(b, n) : Has(b, s, {"usb", "Rd", c})}
           m == NamedNet(b, n, r, <<c>>)
           down == {s \in rds : /\ Cardinality(PartNets(b, n, s)) = 2
                                /\ m \in PartNets(b, n, s)
                                /\ PartNets(b, n, s) \cap Grounds(b, n) # {}}
       IN  rds # {} /\ ~(m # None /\ m \notin Supplies(b, n) \cup Grounds(b, n) /\ Single(down))}

Spans(b, n, tags, ends) == \E r \in Known(b, n) : Has(b, r, tags) /\ PartNets(b, n, r) = ends
Down(b, n, tags, m) ==
  \E r \in Known(b, n) : /\ Has(b, r, tags) /\ Cardinality(PartNets(b, n, r)) = 2
                         /\ m \in PartNets(b, n, r) /\ PartNets(b, n, r) \cap Grounds(b, n) # {}

BuckCore(b, n, vin, out) ==
  /\ out # {} /\ out \cap Grounds(b, n) = {}
  /\ Down(b, n, {"buck", "output", "capacitor"}, The(out))
  /\ Down(b, n, {"buck", "input", "capacitor"}, vin)
BuckPins(b, n, sw, out, boot, fb, rt) ==
  /\ boot # None => Spans(b, n, {"C"}, {boot, sw})
  /\ fb # None => Spans(b, n, {"R"}, out \cup {fb}) /\ Down(b, n, {"R"}, fb)
  /\ rt # None => Down(b, n, {"R"}, rt)
BuckEnable(b, n, vin, en) ==
  (\E r \in Known(b, n) : Has(b, r, {"buck", "en", "top"}) \/ Has(b, r, {"buck", "en", "bottom"}))
  => Spans(b, n, {"buck", "en", "top"}, {vin, en}) /\ Down(b, n, {"buck", "en", "bottom"}, en)

\* The net at the other end of a coil on the switch pin.
CoilOutput(b, n, sw) ==
  UNION {PartNets(b, n, r) \ {sw} :
           r \in {s \in Known(b, n) : /\ Has(b, s, {"buck", "inductor"})
                                      /\ sw \in PartNets(b, n, s)
                                      /\ Cardinality(PartNets(b, n, s)) = 2}}
BuckBad(b, n) ==
  {u \in Known(b, n) : Has(b, u, {"buck", "converter"}) /\
     ~\E sw \in {NamedNet(b, n, u, <<"SW">>)}, vin \in {NamedNet(b, n, u, <<"VIN">>)} :
        /\ BuckCore(b, n, vin, CoilOutput(b, n, sw))
        /\ BuckPins(b, n, sw, CoilOutput(b, n, sw), NamedNet(b, n, u, <<"BOOT">>),
                    NamedNet(b, n, u, <<"FB">>), NamedNet(b, n, u, <<"RT/CLK", "RT">>))
        /\ BuckEnable(b, n, vin, NamedNet(b, n, u, <<"EN", "ENABLE">>))}

(***************************************************************************)
(* All of them, the first failed one being the next to repair.             *)
(***************************************************************************)
Reaching(b, n, X) == UNION {NetsOf(b, n, x) : x \in X}
Powered(b, n, M, type) == UNION {Driven(b, n, m, type) : m \in M}

Checks(b, n) ==
  << Check("no_pin_on_multiple_nets", LogicalShorts(n) # {}, {RefOf(p) : p \in LogicalShorts(n)},
           {p[2] : p \in LogicalShorts(n)} \cup {m \in DOMAIN n.nets : n.nets[m] \cap LogicalShorts(n) # {}}),
     Check("no_physical_pin_on_multiple_nets", PhysicalShorts(b, n) # {},
           {x[1] : x \in PhysicalShorts(b, n)}, Reaching(b, n, PhysicalShorts(b, n))),
     AboutPins("no_connect_pins_not_connected", OpenButConnected(b, n)),
     AboutPins("logical_pins_resolve", Unresolved(b, n)),
     Check("additional_part_budget", Cardinality(n.added) > MaxAdded, {}, {}),
     AboutParts("additional_parts:", {r \in n.added : ~b.parts[r].grounded}),
     AboutNamed(b, "power_pin_rail_polarity", Polarity(b, n), Reaching(b, n, Polarity(b, n))),
     AboutNamed(b, "power_pin_rail_class", RailClass(b, n), Reaching(b, n, RailClass(b, n))),
     AboutWiring(b, n, "two_terminal_parts_span_distinct_nets", SelfShorted(b, n), {}),
     AboutNamed(b, "small_parts_fully_connected", Abandoned(b, n), {}),
     AboutNamed(b, "single_power_output_per_net", Powered(b, n, Contended(b, n), "power_out"), Contended(b, n)),
     AboutNamed(b, "power_input_net_has_source", Powered(b, n, Undriven(b, n), "power_in"), Undriven(b, n)),
     AboutWiring(b, n, "buck_core_topology", BuckBad(b, n), {}),
     AboutWiring(b, n, "mcu_reset_boot_support", ControlBad(b, n),
                 {r \in Known(b, n) : Has(b, r, {"mcu"})}),
     AboutWiring(b, n, "usb_c_sink_cc_rd", UsbBad(b, n), {r \in Known(b, n) : Has(b, r, {"usb", "Rd"})}),
     AboutWiring(b, n, "microsd_spi_bus", MicroSdBad(b, n), {}),
     [AboutWiring(b, n, "selectable_termination_across_pair",
                  {r \in Known(b, n) : Has(b, r, {"termination"})}, {}) EXCEPT !.fails = ~Terminated(b, n)],
     AboutNamed(b, "critical_power_reset_pins_connected", CriticalOpen(b, n), {}),
     AboutNets("no_single_pin_nets", Singles(n)),
     AboutParts("selected_components_used", UnusedParts(b, n)),
     AboutNamed(b, "component_pins_accounted", Unaccounted(b, n), {}),
     Check("has_nets", DOMAIN n.nets = {}, {}, {}),
     Check("has_supply_net", n.supply = {} /\ ~\E m \in DOMAIN n.nets : b.kind[m] = "power", {}, {}),
     Check("has_ground_net", DOMAIN n.nets \cap Grounds(b, n) = {}, {}, {b.ground}),
     AboutPins("pins_reference_selected_parts", UnknownRefs(b, n)),
     AboutNets("no_single_physical_pin_nets", SinglePhysical(b, n)),
     AboutPins("no_connect_pins_resolve", UnresolvedOpen(b, n)),
     AboutParts("additional_parts_used", AddedUnused(n)),
     AboutParts("additional_two_pin_parts_fully_connected", AddedIncomplete(b, n)),
     AboutWiring(b, n, "crystal_two_distinct_signal_nets", CrystalBad(b, n), {}),
     AboutWiring(b, n, "cortex_swd_10pin_mapping", SwdBad(b, n), {}) >>

Failed(b, n) ==
  The({SelectSeq(list, LAMBDA c : c.fails) : list \in {Checks(d, k) : d \in {b}, k \in {n}}})
Accepted(b, n) == Failed(b, n) = <<>>
Cohort(b, n) == Head(Failed(b, n))

\* Which failures send the step back to the selection of parts.
Upstream(c) == c.name \in {"selected_components_used", "component_pins_accounted",
  "small_parts_fully_connected", "two_terminal_parts_span_distinct_nets",
  "selectable_termination_across_pair", "additional_parts:"}
RollsBack(b, n) == \E c \in ToSet(Failed(b, n)) : Upstream(c)

\* Words of roles and rails in the text of a check, whatever failed: "can" is in
\* every "cannot".
Says ==
  [GND |-> {"power_pin_rail_polarity", "power_pin_rail_class", "crystal_two_distinct_signal_nets",
            "usb_c_sink_cc_rd", "selectable_termination_across_pair", "has_ground_net"},
   outputs |-> {"single_power_output_per_net"},
   can |-> {"no_connect_pins_not_connected", "small_parts_fully_connected",
            "critical_power_reset_pins_connected", "microsd_spi_bus"},
   mcu |-> {"mcu_reset_boot_support", "microsd_spi_bus", "crystal_two_distinct_signal_nets"},
   reset |-> {"mcu_reset_boot_support", "critical_power_reset_pins_connected"},
   boot |-> {"mcu_reset_boot_support", "critical_power_reset_pins_connected"},
   usb |-> {"usb_c_sink_cc_rd"}, microsd |-> {"microsd_spi_bus"}, swd |-> {"cortex_swd_10pin_mapping"},
   buck |-> {"buck_core_topology"}, crystal |-> {"crystal_two_distinct_signal_nets"},
   termination |-> {"selectable_termination_across_pair"}]
Text(c) == {w \in DOMAIN Says : c.name \in Says[w]}

\* What the repair of one failure may touch: parts and nets.
RepairScope(b, n, c) ==
  LET on(M) == {RefOf(p) : p \in UNION {n.nets[m] : m \in M}}
      single == Singles(n)
      family == {m \in DOMAIN n.nets : b.prefix[m] # None /\
                   \E k \in single : b.prefix[k] = b.prefix[m]}
      first == c.refs \cup on(single \cup family)
      words == Text(c) \cup UNION {b.about[m] : m \in single}
               \cup UNION {b.parts[r].words : r \in first \cap Known(b, n)}
      refs == first \cup {r \in Known(b, n) : (b.parts[r].words \cup b.parts[r].tags) \cap words # {}}
      touching(R) == {m \in DOMAIN n.nets : \E p \in n.nets[m] : RefOf(p) \in R}
      bounded == {r \in c.refs : Size(b, r) <= 16}
      shown(why, M) == IF why THEN M ELSE {}
  IN  [refs |-> refs \cup shown(words \cap b.interfaces # {}, {r \in Known(b, n) : Has(b, r, {"mcu"})}),
       nets |-> single \cup family \cup (c.said \cap DOMAIN n.nets)
                \cup touching({r \in refs : Size(b, r) <= 4}) \cup touching(bounded)
                \cup shown(c.name = "power_input_net_has_source",
                       n.supply \cup {m \in DOMAIN n.nets : \E x \in Driven(b, n, m, "power_out") :
                                                             x[1] \in c.refs})
                \cup shown(/\ c.name = "component_pins_accounted"
                           /\ \E r \in bounded : Has(b, r, {"connector"}), Protected(b, n))
                \cup shown(c.said \cap b.spelt.vdd # {} \/ "outputs" \in Text(c), n.supply)
                \cup shown(c.said \cap b.spelt.gnd # {} \/ "GND" \in Text(c), {b.ground})]
=============================================================================
