------------------------------ MODULE Netlist ------------------------------
(***************************************************************************)
(* The electrical netlist of orchestration/pipeline.py as pure operators:  *)
(* how a logical pin resolves on a symbol, the normalizers every proposal, *)
(* repair and resumed artifact goes through, the repair patch, and the     *)
(* checks that accept a netlist.                                           *)
(*                                                                         *)
(* A board is a record: its parts, the order in which the selection lists  *)
(* them, the selected ones, the kinds of its net names and what the        *)
(* requirement asks.  A part is its role and its symbol's pins; the words  *)
(* of a role that the code looks for are its tags; a large part has more   *)
(* pins than those that matter here, which its size counts.  A netlist holds the    *)
(* pins of each net, the no-connect pins, the supply nets and the parts    *)
(* the connection step adds.  A logical pin is a reference with a label,   *)
(* a physical pin a reference with a pin number.                           *)
(***************************************************************************)
EXTENDS Integers, FiniteSets, Sequences, SequencesExt

None == "none"
The(S) == CHOOSE x \in S : TRUE
Single(S) == Cardinality(S) = 1

RefOf(p) == p[1]
Pins(b, r) == IF r \in DOMAIN b.parts THEN b.parts[r].pins ELSE <<>>
Size(b, r) == IF r \in DOMAIN b.parts THEN b.parts[r].size ELSE 0
Numbers(b, r) == IF r \in DOMAIN b.parts THEN DOMAIN b.parts[r].pin ELSE {}
Has(b, r, tags) == r \in DOMAIN b.parts /\ tags \subseteq b.parts[r].tags
Known(b, n) == b.sel \cup n.added
Listed(b, S) == SelectSeq(b.order, LAMBDA r : r \in S)

(***************************************************************************)
(* Pin resolution.  The repair side takes the first pin that matches by    *)
(* number, name, part of the name, or a synonym; the merge of a batch      *)
(* takes no synonym and refuses a match that is not unique.  What each     *)
(* label of a symbol resolves to is indexed once.                          *)
(***************************************************************************)
Named(q, l, tier) ==
  CASE tier = 1 -> q.num = l
    [] tier = 2 -> q.name = l
    [] tier = 3 -> l \in q.tokens
    [] tier = 4 -> l \in q.alias

\* The places of the pins of the best tier in which any pin matches.
Matches(pins, l, tiers) ==
  LET found == {i \in tiers : \E j \in DOMAIN pins : Named(pins[j], l, i)}
  IN  {j \in DOMAIN pins : found # {} /\
         Named(pins[j], l, CHOOSE i \in found : \A t \in found : i <= t)}

FirstMatch(pins, l) ==
  LET hit == Matches(pins, l, 1..4)
  IN  IF hit = {} THEN None ELSE pins[CHOOSE j \in hit : \A i \in hit : j <= i].num
OnlyMatch(pins, l) ==
  LET hit == {pins[j].num : j \in Matches(pins, l, 1..3)}
  IN  IF Single(hit) THEN The(hit) ELSE None

Symbol(tags, words, pins) ==
  LET labels == UNION {{q.num, q.name} \cup q.tokens \cup q.alias : q \in ToSet(pins)}
  IN  [tags |-> tags, words |-> words, grounded |-> TRUE, pins |-> pins, size |-> Len(pins),
       pin |-> [i \in {q.num : q \in ToSet(pins)} |-> CHOOSE q \in ToSet(pins) : q.num = i],
       first |-> [l \in labels |-> FirstMatch(pins, l)],
       only |-> [l \in labels |-> OnlyMatch(pins, l)]]

At(b, p, index) == IF p[1] \in DOMAIN b.parts /\ p[2] \in DOMAIN index THEN index[p[2]] ELSE None
Resolve(b, p) == At(b, p, b.parts[p[1]].first)
ResolveStrictly(b, p) == At(b, p, b.parts[p[1]].only)

Physical(b, p) == <<p[1], Resolve(b, p)>>
Resolved(b, P) == {x \in {Physical(b, p) : p \in P} : x[2] # None}

Pin(b, x) == b.parts[x[1]].pin[x[2]]
PinType(b, x) == Pin(b, x).type
PinName(b, x) == Pin(b, x).name
PinHas(b, x, flag) == flag \in Pin(b, x).flags
LibraryNoConnect(b, x) == PinType(b, x) = "no_connect"

(***************************************************************************)
(* The connectivity view.                                                  *)
(***************************************************************************)
NetPins(n, m) == IF m \in DOMAIN n.nets THEN n.nets[m] ELSE {}
NetsOf(b, n, x) == {m \in DOMAIN n.nets : x \in Resolved(b, n.nets[m])}
PartNets(b, n, r) == {m \in DOMAIN n.nets : \E x \in Resolved(b, n.nets[m]) : x[1] = r}
Connected(b, n) == UNION {Resolved(b, n.nets[m]) : m \in DOMAIN n.nets}
Open(b, n) == Resolved(b, n.nc)

NamedNet(b, n, r, names) ==
  LET on(l) == NetsOf(b, n, Physical(b, <<r, l>>))
      hit == SelectSeq(names, LAMBDA l : on(l) # {})
  IN  IF hit = <<>> THEN None ELSE The(on(Head(hit)))

Grounds(b, n) == {b.ground} \cup {m \in DOMAIN n.nets : b.kind[m] = "ground"}
Supplies(b, n) ==
  (n.supply \cup {m \in DOMAIN n.nets : b.kind[m] = "power"}) \ Grounds(b, n)

Filter(n, Keep(_, _)) ==
  [n EXCEPT !.nets = [m \in DOMAIN @ |-> {p \in @[m] : Keep(m, p)}]]
Prune(n, Keep(_)) ==
  [n EXCEPT !.nets = [m \in {k \in DOMAIN @ : Keep(k)} |-> @[m]]]
PutAll(n, f) ==
  [n EXCEPT !.nets = [m \in DOMAIN @ \cup DOMAIN f |->
                        NetPins(n, m) \cup (IF m \in DOMAIN f THEN f[m] ELSE {})]]
Put(n, m, P) == PutAll(n, m :> P)

(***************************************************************************)
(* The normalizers, in the order they are applied.                         *)
(***************************************************************************)
AdditionalParts(b, n) == [n EXCEPT !.added = @ \ b.sel]

DeclaredPower(b, n) ==
  [n EXCEPT !.supply = {m \in DOMAIN n.nets :
     /\ m \in @ \/ b.kind[m] = "power" \/ m \in b.railish
     /\ m # b.ground /\ b.kind[m] # "ground"}]

\* Pins 7 and 8 of a ten-pin debug connector are reserved; pin 6 is SWO or open.
StandardConnectorKeyOnly(b, n) ==
  LET swd == {r \in Known(b, n) : Has(b, r, {"swd", "ten"})}
      key == {<<r, l>> : r \in swd, l \in {"7", "8"}}
      swo == {<<r, "6">> : r \in swd}
  IN  [Filter(n, LAMBDA m, p : p \notin key /\ (p \in swo => m \in b.swo))
         EXCEPT !.nc = @ \cup key]
StandardConnector(b, n) ==
  LET swd == {r \in Known(b, n) : Has(b, r, {"swd", "ten"})}
      key == {<<r, l>> : r \in swd, l \in {"7", "8"}}
      swo == {<<r, "6">> : r \in swd}
      onSwo == {p \in swo : \E m \in DOMAIN n.nets \cap b.swo : p \in n.nets[m]}
      stray == {p \in swo \ onSwo : \E m \in DOMAIN n.nets \ b.swo : p \in n.nets[m]}
  IN  [Filter(n, LAMBDA m, p : p \notin key /\ (p \in swo => m \in b.swo))
         EXCEPT !.nc = IF swd = {} THEN @ ELSE @ \cup key \cup stray]

\* Votes for a rail: pins of small parts that share a signal net with the connector.
Votes(b, n, r, rail) ==
  LET mine(m) == {c \in n.nets[m] : RefOf(c) = r}
      small(q) == RefOf(q) \in Known(b, n) \ {r} /\ Size(b, RefOf(q)) <= 4
      peers(m) == {u \in n.nets[m] \X NetPins(n, rail) :
                     small(u[1]) /\ RefOf(u[2]) = RefOf(u[1])}
  IN  Cardinality(UNION {{m} \X mine(m) \X peers(m) :
        m \in {k \in DOMAIN n.nets : b.kind[k] \notin {"power", "ground"}}})

ConnectorPower(b, n0) ==
  LET step(n, r) ==
        LET missing == {i \in Numbers(b, r) :
              /\ <<r, i>> \notin Connected(b, n) \cup Open(b, n)
              /\ PinType(b, <<r, i>>) # "no_connect"}
            mine == {m \in DOMAIN n.nets : \E p \in n.nets[m] : RefOf(p) = r}
            best == {m \in n.supply : /\ Votes(b, n, r, m) >= 2
                                      /\ \A k \in n.supply \ {m} :
                                           Votes(b, n, r, k) < Votes(b, n, r, m)}
        IN  IF /\ Has(b, r, {"connector"}) /\ Len(Pins(b, r)) \in 2..16
               /\ Single(missing) /\ mine \cap n.supply = {} /\ best # {}
            THEN Put(n, The(best), {<<r, The(missing)>>}) ELSE n
  IN  FoldLeft(step, n0, Listed(b, Known(b, n0)))

\* Pins of a connector with one name follow the one net any of them is on.
DuplicatePins(b, n0) ==
  LET join(n, r, twins) ==
        LET on == {m \in DOMAIN n.nets : \E x \in Resolved(b, n.nets[m]) :
                                            x[1] = r /\ x[2] \in twins}
        IN  IF ~Single(on) THEN n
            ELSE Put(n, The(on), {<<r, i>> : i \in {j \in twins :
                   /\ <<r, j>> \notin Resolved(b, n.nets[The(on)])
                   /\ <<r, j>> \notin n.nc}})
      step(n, r) ==
        IF ~(Has(b, r, {"connector"}) \/ Has(b, r, {"J"})) THEN n
        ELSE FoldLeft(LAMBDA k, q : join(k, r, {s.num : s \in {t \in ToSet(Pins(b, r)) :
                                                                t.name = q.name}}),
               n, SelectSeq(Pins(b, r), LAMBDA q :
                    \E s \in ToSet(Pins(b, r)) : q.name # "" /\ s.name = q.name /\ s.num # q.num))
  IN  FoldLeft(step, n0, Listed(b, Known(b, n0)))

\* A crystal whose symbol grounds two of four pads, wired as if it had two.
GroundedCrystal(b, n0) ==
  LET step(n, r) ==
        LET gnd == {q.num : q \in {s \in ToSet(Pins(b, r)) : "case" \in s.flags}}
            sig == Numbers(b, r) \ gnd
            ours == UNION {{m} \X {p \in n.nets[m] : RefOf(p) = r} :
                             m \in DOMAIN n.nets \ {b.ground}}
            wrong == {u \in ours : Resolve(b, u[2]) \in gnd}
            missing == sig \ {Resolve(b, u[2]) : u \in ours}
            fixed == IF ~(Single(wrong) /\ Single(missing)) THEN n
                     ELSE LET w == The(wrong)
                          IN  [n EXCEPT !.nets[w[1]] = (@ \ {w[2]}) \cup {<<r, The(missing)>>}]
            grounded == {Resolve(b, p) : p \in {q \in fixed.nets[b.ground] : RefOf(q) = r}}
        IN  IF ~(Has(b, r, {"crystal"}) /\ Len(Pins(b, r)) = 4 /\ gnd # {}) THEN n
            ELSE Put(fixed, b.ground, {<<r, i>> : i \in gnd \ grounded})
  IN  IF b.ground \notin DOMAIN n0.nets THEN n0
      ELSE FoldLeft(step, n0, Listed(b, Known(b, n0)))

\* A two-pin part is put between two known nets; nets it leaves empty go.
Used(n, keep) == Prune(n, LAMBDA m : n.nets[m] # {} \/ m \in keep)
Lifted(n, r) == [Filter(n, LAMBDA m, p : RefOf(p) # r) EXCEPT !.nc = {p \in @ : RefOf(p) # r}]
Rewire(b, n, r, a, z) ==
  IF a = None \/ z = None \/ a = z \/ Len(Pins(b, r)) # 2 THEN n
  ELSE Used(PutAll(Lifted(n, r), (a :> {<<r, Pins(b, r)[1].num>>})
                                 @@ (z :> {<<r, Pins(b, r)[2].num>>})), {b.ground} \cup n.supply)
Rewired(b, n, moves) ==
  The({FoldLeft(LAMBDA m, u : Rewire(b, m, u[1], u[2], u[3]), n, list) : list \in {moves}})

\* The private net between two parts: reused only when no other part is on it.
LinkNet(n, base, refs) ==
  LET usable(m) == {RefOf(p) : p \in NetPins(n, m)} \subseteq refs
  IN  Head(SelectSeq(base, usable))

SeriesPair(b, n, r, s, ends) ==
  LET R == PartNets(b, n, r)
      S == PartNets(b, n, s)
  IN  /\ Cardinality(R) = 2 /\ Cardinality(S) = 2 /\ Single(R \cap S)
      /\ (R \cup S) \ (R \cap S) = ends

Chain(b, n, res, sw, a, z, base) ==
  IF \/ ~Single(res) \/ ~Single(sw) \/ None \in {a, z}
     \/ SeriesPair(b, n, The(res), The(sw), {a, z})
  THEN <<>>
  ELSE LET mid == LinkNet(n, base, res \cup sw)
       IN  << <<The(res), a, mid>>, <<The(sw), mid, z>> >>

Chosen(b, tags) == {r \in b.sel : Has(b, r, tags)}

\* A selectable termination: resistor and selector in series across the bus.
Termination(b, n, bus) ==
  LET xcvr == Chosen(b, {bus, "transceiver"})
      line(i) == NamedNet(b, n, The(xcvr), b.bus[bus][i])
  IN  IF \/ ~Single(xcvr) \/ line(1) = line(2)
         \/ bus \notin b.terminate /\ Chosen(b, {bus, "termination"}) = {}
      THEN <<>>
      ELSE Chain(b, n, Chosen(b, {bus, "termination", "120R"}),
                 Chosen(b, {bus, "termination", "selector"}), line(1), line(2), b.link[bus])

\* The bias of an RS-485 pair: line A to the supply, line B to ground.
Bias(b, n, side) ==
  LET xcvr == Chosen(b, {"rs485", "transceiver"})
      net(names) == NamedNet(b, n, The(xcvr), names)
  IN  IF ~Single(xcvr) THEN <<>>
      ELSE Chain(b, n, Chosen(b, {"rs485", side, "R"}), Chosen(b, {"rs485", side, "selector"}),
                 IF side = "bias_a" THEN net(<<"VCC", "VDD">>) ELSE b.ground,
                 net(b.bus["rs485"][IF side = "bias_a" THEN 1 ELSE 2]), b.link[side])

\* The coil of a buck converter, from the switch pin to the output its parts show.
BuckOutputs(b, n, u) ==
  UNION {PartNets(b, n, r) \ Grounds(b, n) : r \in Chosen(b, {"buck", "output", "capacitor"})}
  \cup UNION {PartNets(b, n, r) \ {NamedNet(b, n, u, <<"FB">>)} :
                r \in Chosen(b, {"buck", "feedback", "top"})}
BuckCoil(b, n) ==
  LET conv == Chosen(b, {"buck", "converter"})
      coil == Chosen(b, {"buck", "inductor"})
      sw == NamedNet(b, n, The(conv), <<"SW">>)
      outs == BuckOutputs(b, n, The(conv)) \ ({sw} \cup Grounds(b, n))
  IN  IF \/ ~Single(conv) \/ ~Single(coil) \/ sw = None \/ ~Single(outs)
         \/ PartNets(b, n, The(coil)) = outs \cup {sw}
      THEN <<>> ELSE << <<The(coil), sw, The(outs)>> >>

\* Its timing resistor, from the timing pin to ground.
BuckTiming(b, n) ==
  LET conv == Chosen(b, {"buck", "converter"})
      timing == Chosen(b, {"buck", "timing", "R"})
      rt == NamedNet(b, n, The(conv), <<"RT/CLK", "RT">>)
  IN  IF \/ ~Single(conv) \/ ~Single(Chosen(b, {"buck", "inductor"})) \/ ~Single(timing)
         \/ rt = None \/ PartNets(b, n, The(timing)) = {rt, b.ground}
      THEN <<>> ELSE << <<The(timing), rt, b.ground>> >>

\* One-ended reset and boot parts go between the control pin's net and a rail.
Grounding(b, r) == \E t \in {"switch", "capacitor", "pulldown"} : Has(b, r, {t})
Pulling(b, r) == \E t \in {"pullup", "R"} : Has(b, r, {t})
ControlSupport(b, n, kind) ==
  LET mcu == Chosen(b, {"mcu"})
      net == NamedNet(b, n, The(mcu), b.control[kind])
      supply == NamedNet(b, n, The(mcu), <<"VDD", "VCC", "3V3">>)
      oneEnded == {r \in Chosen(b, {kind}) :
                     Len(Pins(b, r)) = 2 /\ Cardinality(PartNets(b, n, r)) < 2}
      moved == {r \in oneEnded : Grounding(b, r) \/ (supply # None /\ Pulling(b, r))}
      parts == Listed(b, moved)
  IN  IF ~Single(mcu) \/ net = None THEN <<>>
      ELSE [i \in DOMAIN parts |-> <<parts[i], net, IF Grounding(b, parts[i]) THEN b.ground ELSE supply>>]

Moves(b, n, step) ==
  CASE step \in {"can", "rs485"} -> Termination(b, n, step)
    [] step \in {"bias_a", "bias_b"} -> Bias(b, n, step)
    [] step = "buck_coil" -> BuckCoil(b, n)
    [] step = "buck_timing" -> BuckTiming(b, n)
    [] step \in {"reset", "boot"} -> ControlSupport(b, n, step)
    [] OTHER -> <<>>

\* A decoupling capacitor on one net gets the other rail of its domain.
DomainRails(b, n, r) ==
  UNION {PartNets(b, n, s) : s \in {t \in b.sel \ {r} : b.parts[t].words \cap b.parts[r].words # {}}}
  \cap Supplies(b, n)
Decoupling(b, n, r) ==
  LET nets == PartNets(b, n, r)
      rails == DomainRails(b, n, r)
  IN  CASE ~Has(b, r, {"decoupling"}) \/ Len(Pins(b, r)) # 2 \/ ~Single(nets) -> <<>>
        [] nets \subseteq Supplies(b, n) -> << <<r, The(nets), b.ground>> >>
        [] nets \subseteq Grounds(b, n) /\ Single(rails) -> << <<r, The(nets), The(rails)>> >>
        [] OTHER -> <<>>
OrphanDecoupling(b, n) ==
  FoldLeft(LAMBDA m, r : Rewired(b, m, Decoupling(b, m, r)), n, Listed(b, b.sel))

\* Unused GPIOs and reserved connector pins; a net of one pin connects nothing.
SafeNoConnects(b, n) ==
  LET joined == UNION {Resolved(b, n.nets[m]) :
                         m \in {k \in DOMAIN n.nets : Cardinality(n.nets[k]) >= 2}}
      idle == UNION {{<<r, i>> : i \in Numbers(b, r)} : r \in Known(b, n)} \ joined
      safe(x) == \/ /\ Has(b, x[1], {"mcu"}) /\ ~PinHas(b, x, "critical")
                    /\ PinType(b, x) \notin {"power_in", "power_out"}
                 \/ Has(b, x[1], {"J"}) /\ PinHas(b, x, "reserved")
  IN  [n EXCEPT !.nc = @ \cup {x \in idle : safe(x)}]

ValidNoConnects(b, n) ==
  [n EXCEPT !.nc = {p \in @ : /\ RefOf(p) \in Known(b, n)
                              /\ Pins(b, RefOf(p)) = <<>> \/ Resolve(b, p) # None}]

\* DAT1 and DAT2 of a memory card used over SPI are not connected.
Sockets(b) == {r \in b.sel : b.spi /\ Has(b, r, {"microsd", "socket"})}
Forced(b) == Resolved(b, {<<r, l>> : r \in Sockets(b), l \in {"DAT1", "DAT2"}})
ProtocolUnused(b, n) ==
  LET forced == Forced(b)
      kept == Filter(n, LAMBDA m, p : Physical(b, p) \notin forced)
  IN  IF Sockets(b) = {} THEN n
      ELSE [Prune(kept, LAMBDA m : kept.nets[m] # {})
              EXCEPT !.nc = {p \in @ : Physical(b, p) \notin forced} \cup forced]

\* The forced pins are appended in the order of a set of strings, which differs
\* between processes: with two of them the same no-connects may be listed otherwise.
Reordered(b) == {FALSE} \cup {Cardinality(Forced(b)) > 1}

NoConnectSingletons(b, n) ==
  Prune(n, LAMBDA m : ~(Single(n.nets[m]) /\ Resolved(b, n.nets[m]) # {}
                        /\ Resolved(b, n.nets[m]) \subseteq Open(b, n)))

\* Each CC pin of a USB-C sink gets its own resistor to ground.
RdGroundSwapped(b, n, r) ==
  LET g == {i \in Numbers(b, r) : <<r, i>> \in Resolved(b, NetPins(n, b.ground))}
  IN  IF g = {} THEN Pins(b, r)[2].num
      ELSE IF Single(g) THEN The(Numbers(b, r) \ g) ELSE The(g)
RdGround(b, n, r) ==
  LET g == {i \in Numbers(b, r) : <<r, i>> \in Resolved(b, NetPins(n, b.ground))}
  IN  IF g = {} THEN Pins(b, r)[2].num ELSE The(g)

RdBetween(b, n, cc, r, g, net) ==
  PutAll(Filter(n, LAMBDA m, p : Physical(b, p) \notin {cc} \cup ({r} \X Numbers(b, r))),
         (b.ground :> {<<r, g>>}) @@ (net :> ({cc} \cup {<<r, i>> : i \in Numbers(b, r) \ {g}})))

UsbRd(b, n, cc, rd, net) ==
  IF ~Single(rd) \/ cc[2] = None \/ Cardinality(Numbers(b, The(rd))) # 2 THEN n
  ELSE RdBetween(b, n, cc, The(rd), RdGround(b, n, The(rd)), net)

UsbSinkCC(b, n) ==
  IF Chosen(b, {"usb", "connector"}) = {} THEN n
  ELSE Used(FoldLeft(LAMBDA m, u : UsbRd(b, m, Physical(b, u), Chosen(b, {"usb", "Rd", u[2]}),
                                         b.usbNet[u[2]]),
                     n, SetToSeq(Chosen(b, {"usb", "connector"}) \X {"CC1", "CC2"})), {})

Normalizers ==
  << "additional_parts", "declared_power", "standard_connector", "connector_power",
     "duplicate_pins", "grounded_crystal", "can", "rs485", "bias_a", "bias_b", "buck_coil",
     "buck_timing", "reset", "boot", "orphan_decoupling", "safe_no_connects", "valid_no_connects", "protocol_unused",
     "singletons", "usb_sink_cc", "declared_power" >>

Normalizer(b, n, step) ==
  CASE step = "additional_parts" -> AdditionalParts(b, n)
    [] step = "declared_power" -> DeclaredPower(b, n)
    [] step = "standard_connector" -> StandardConnector(b, n)
    [] step = "connector_power" -> ConnectorPower(b, n)
    [] step = "duplicate_pins" -> DuplicatePins(b, n)
    [] step = "grounded_crystal" -> GroundedCrystal(b, n)
    [] step = "orphan_decoupling" -> OrphanDecoupling(b, n)
    [] step = "safe_no_connects" -> SafeNoConnects(b, n)
    [] step = "valid_no_connects" -> ValidNoConnects(b, n)
    [] step = "protocol_unused" -> ProtocolUnused(b, n)
    [] step = "singletons" -> NoConnectSingletons(b, n)
    [] step = "usb_sink_cc" -> UsbSinkCC(b, n)
    [] OTHER -> Rewired(b, n, Moves(b, n, step))

\* The board is bound once for all the steps.
Normalize(b, n) ==
  The({FoldLeft(LAMBDA m, step : The({Normalizer(c, k, step) : k \in {m}}), n, Normalizers) : c \in {b}})

(***************************************************************************)
(* The bounded repair: a patch, limited to the failure's scope.            *)
(***************************************************************************)
\* Pins in "put" move to their net from wherever they were; no-connects come last.
ApplyPatch(b, n, pt) ==
  LET moved == DOMAIN pt.put
      cut == Filter(Prune(n, LAMBDA m : m \notin pt.drop),
                    LAMBDA m, p : p \notin pt.remove \cup moved \cup pt.ncAdd)
      nets == DOMAIN cut.nets \cup {pt.put[p] : p \in moved}
      filled == [m \in nets |-> NetPins(cut, m) \cup
                                {p \in moved \ pt.ncAdd : pt.put[p] = m}]
  IN  [nets |-> [m \in {k \in nets : filled[k] # {}} |-> filled[m]],
       nc |-> ((n.nc \ pt.ncDel) \ moved) \cup pt.ncAdd,
       supply |-> {m \in n.supply : m \in nets /\ filled[m] # {} /\ m # b.ground}
                  \cup {m \in {pt.put[p] : p \in moved} : b.kind[m] = "power" /\ m # b.ground},
       added |-> pt.added]

RemoveUnknown(b, n) ==
  [Filter(n, LAMBDA m, p : RefOf(p) \in Known(b, n))
     EXCEPT !.nc = {p \in @ : RefOf(p) \in Known(b, n)}]

Protected(b, n) == {b.ground} \cup n.supply

LimitPatchNetsOnly(b, n, pt, scope) ==
  [pt EXCEPT !.drop = (@ \cap scope.nets) \ Protected(b, n)]

LimitPatch(b, n, pt, scope) ==
  LET mine == scope.refs \cup pt.added
      ours(P) == {p \in P : RefOf(p) \in mine}
      open(m) == m \notin DOMAIN n.nets \/ m \in scope.nets \cup Protected(b, n)
  IN  [pt EXCEPT !.drop = (@ \cap scope.nets) \ Protected(b, n),
                 !.remove = ours(@), !.ncAdd = ours(@), !.ncDel = ours(@),
                 !.put = [p \in {q \in ours(DOMAIN @) : open(@[q])} |-> @[p]]]
=============================================================================
