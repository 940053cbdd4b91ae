--------------------------- MODULE MCConnections ---------------------------
(***************************************************************************)
(* Small boards for ConnectionSynthesis: one synthesized in batches, and   *)
(* one for each family of normalizers with every assignment of its         *)
(* critical pins to the nets the family works on.                          *)
(***************************************************************************)
EXTENDS ConnectionSynthesis

P(num, name, type, flags) ==
  [num |-> num, name |-> name, tokens |-> {}, alias |-> {}, type |-> type, flags |-> flags]
Two(tags, words) == Symbol(tags, words, <<P("1", "", "passive", {}), P("2", "", "passive", {})>>)
Vdd(i) == P(i, "VDD", "power_in", {"vdd"})
Gnd(i) == P(i, "GND", "power_in", {"gnd"})
Io(i, name, flags) == P(i, name, "bidirectional", flags)

Names == {"GND", "VCC", "A", "B", "C", "M", "M1"}

Board(parts, order) ==
  [board |-> [parts |-> parts, order |-> order, sel |-> ToSet(order), ground |-> "GND",
     rails |-> {"VCC"}, kind |-> [m \in Names |-> CASE m = "GND" -> "ground" [] m = "VCC" -> "power"
                                                    [] OTHER -> "signal"],
     railish |-> {}, swo |-> {"B"}, swdio |-> {"A"},
     bus |-> [u \in {"can", "rs485"} |-> << <<"H">>, <<"L">> >>],
     link |-> [u \in {"can", "rs485", "bias_a", "bias_b"} |-> <<"M", "M1">>],
     control |-> [reset |-> <<"NRST", "RESET", "EN">>, boot |-> <<"BOOT0", "BOOT", "IO0", "GPIO0">>],
     terminate |-> {}, pair |-> [u \in {"can", "rs485"} |-> {"A", "B"}],
     usbNet |-> [CC1 |-> "A", CC2 |-> "B"], spi |-> FALSE,
     prefix |-> [m \in Names |-> None], about |-> [m \in Names |-> {}],
     interfaces |-> {"bus", "can", "usb", "swd", "debug", "microsd"},
     spelt |-> [vdd |-> {"VDD", "VCC"}, gnd |-> {"GND"}],
     scores |-> [r \in DOMAIN parts |-> <<0>>]],
   answers |-> {}, offers |-> {}, patches |-> {}, selections |-> {ToSet(order)}]

\* The netlist of an assignment of pins to nets, "NC" or nothing.
Wired(f) ==
  LET nets == {f[p] : p \in DOMAIN f} \ {"NC", "-"}
  IN  [nets |-> [m \in nets |-> {p \in DOMAIN f : f[p] = m}],
       nc |-> {p \in DOMAIN f : f[p] = "NC"},
       supply |-> {"VCC"} \cap nets, added |-> {}]
\* Every choice of one target for each pin of a list <<pin, targets>>.
Assignments(list) ==
  FoldLeft(LAMBDA fs, u : {(u[1] :> t) @@ f : t \in u[2], f \in fs}, {<<>>}, list)
Offers(fixed, list) == {Wired(f @@ fixed) : f \in Assignments(list)}
On(refpins, m) == [p \in refpins |-> m]

(***************************************************************************)
(* The batched board: a hub, and three parts of two blocks or none.        *)
(***************************************************************************)
Large(part) == [part EXCEPT !.size = 20]   \* a part with other, idle pins
Hub == Large(Symbol({"mcu", "hub"}, {"core"}, <<Vdd("1"), Gnd("2"), Io("3", "PA0", {}), Io("4", "PA1", {})>>))
BatchParts == [U1 |-> Hub, R1 |-> Two({"R"}, {"bus"}), J1 |-> Two({"connector", "J"}, {"bus"}),
               C1 |-> Two({"C"}, {"bus"})]
Bypass == (<<"C1", "1">> :> "VCC") @@ (<<"C1", "2">> :> "GND")
D(put, create, nc) == [put |-> put, create |-> create, nc |-> nc]
BatchAnswers ==
  { D(<<"R1", "1">> :> "A" @@ <<"R1", "2">> :> "VCC" @@ <<"U1", "PA0">> :> "A", {"A"}, {}),
    D(<<"R1", "1">> :> "B" @@ <<"R1", "2">> :> "GND" @@ <<"U1", "4">> :> "B", {"B"}, {}),
    D(<<"J1", "1">> :> "A" @@ <<"J1", "2">> :> "GND" @@ Bypass, {}, {}),
    D(<<"J1", "1">> :> "B" @@ <<"J1", "2">> :> "GND" @@ <<"U1", "3">> :> "B" @@ Bypass, {"B"}, {}),
    D(<<"J1", "2">> :> "GND" @@ Bypass, {}, {<<"J1", "1">>}),
    D(Bypass, {}, {}),
    D(<<"J1", "1">> :> "VCC" @@ Bypass, {}, {<<"U1", "PA0">>}),
    D(<<"U1", "VDD">> :> "VCC" @@ <<"U1", "GND">> :> "GND", {}, {<<"U1", "PA1">>, <<"U1", "3">>}),
    D(<<"U1", "VDD">> :> "VCC" @@ <<"U1", "GND">> :> "GND" @@ <<"U1", "3">> :> "A", {}, {<<"U1", "PA1">>}),
    D(<<"U1", "1">> :> "VCC" @@ <<"U1", "2">> :> "GND" @@ <<"U1", "4">> :> "B", {}, {<<"U1", "PA0">>}),
    D(<<"U1", "1">> :> "VCC" @@ <<"U1", "2">> :> "GND", {}, {}) }
Batched ==
  [Board(BatchParts, <<"U1", "R1", "J1", "C1">>) EXCEPT
     !.board.scores = [U1 |-> <<0, 0>>, R1 |-> <<2, 0>>, J1 |-> <<1, 1>>, C1 |-> <<0, 1>>],
     !.answers = BatchAnswers,
     !.offers = {Wired((<<"U1", "1">> :> "VCC") @@ (<<"U1", "2">> :> "GND") @@ (<<"R1", "1">> :> "A")
                       @@ (<<"R1", "2">> :> "VCC") @@ (<<"U1", "3">> :> "A"))},
     !.selections = {{"U1", "R1", "J1", "C1"}, {"U1", "R1"}},
     !.patches = {[put |-> <<>>, drop |-> {}, remove |-> {}, ncAdd |-> {}, ncDel |-> {}, added |-> {}]}]

(***************************************************************************)
(* Boards asked for at once.                                               *)
(***************************************************************************)
Mcu(ios) == Large(Symbol({"mcu"}, {"core"}, <<Vdd("1"), Gnd("2")>> \o ios))
McuRails == (<<"U1", "1">> :> "VCC") @@ (<<"U1", "2">> :> "GND")
Plug == Symbol({"connector", "J"}, {"supply"}, <<P("1", "VCC", "passive", {}), P("2", "GND", "passive", {})>>)
PlugRails == (<<"J9", "1">> :> "VCC") @@ (<<"J9", "2">> :> "GND")
Rails == McuRails @@ PlugRails

Usb ==
  [Board([U1 |-> Mcu(<<>>), J9 |-> Plug,
          J1 |-> Symbol({"usb", "connector", "J"}, {"usb"},
                      <<Io("1", "CC1", {}), Io("2", "CC2", {})>>),
          R1 |-> Two({"usb", "Rd", "CC1", "R"}, {"usb"}),
          R2 |-> Two({"usb", "Rd", "CC2", "R"}, {"usb"})], <<"U1", "J9", "J1", "R1", "R2">>)
     EXCEPT !.board.about = [m \in Names |-> IF m \in {"A", "B"} THEN {"usb"} ELSE {}],
            !.offers = Offers(Rails, <<
       << <<"J1", "1">>, {"A", "VCC", "NC"}>>, << <<"J1", "2">>, {"A", "B", "-"}>>,
       << <<"R1", "1">>, {"A", "GND", "VCC"}>>, << <<"R1", "2">>, {"A", "GND", "-"}>>,
       << <<"R2", "1">>, {"B", "GND"}>>, << <<"R2", "2">>, {"B", "GND", "-"}>> >>)]

Crystal ==
  [Board([U1 |-> Mcu(<<Io("3", "OSC_IN", {"critical"}), Io("4", "OSC_OUT", {"critical"})>>), J9 |-> Plug,
          Y1 |-> Symbol({"crystal"}, {"clock"},
                      <<P("1", "", "passive", {}), P("2", "", "passive", {"case"}),
                        P("3", "", "passive", {}), P("4", "", "passive", {"case"})>>)],
         <<"U1", "J9", "Y1">>)
     EXCEPT !.offers = Offers(Rails @@ (<<"U1", "3">> :> "A") @@ (<<"U1", "4">> :> "B"), <<
       << <<"Y1", "1">>, {"A", "B", "GND", "-"}>>, << <<"Y1", "2">>, {"A", "B", "GND", "NC", "-"}>>,
       << <<"Y1", "3">>, {"A", "B", "NC", "-"}>>, << <<"Y1", "4">>, {"B", "GND", "NC", "-"}>> >>)]

Can ==
  [Board([U1 |-> Symbol({"can", "transceiver"}, {"bus"},
                      <<Vdd("1"), Gnd("2"), Io("3", "H", {}), Io("4", "L", {})>>), J9 |-> Plug,
          J1 |-> Symbol({"connector", "J"}, {"bus"}, <<Io("1", "H", {}), Io("2", "L", {})>>),
          R1 |-> Two({"can", "termination", "120R", "R"}, {"bus"}),
          K1 |-> Two({"can", "termination", "selector"}, {"bus"})], <<"U1", "J9", "J1", "R1", "K1">>)
     EXCEPT !.board.terminate = {"can"},
            !.offers = Offers(Rails @@ (<<"U1", "3">> :> "A") @@ (<<"U1", "4">> :> "B")
                              @@ (<<"J1", "1">> :> "A") @@ (<<"J1", "2">> :> "B"), <<
       << <<"R1", "1">>, {"A", "B", "M", "GND", "-"}>>, << <<"R1", "2">>, {"A", "M", "-"}>>,
       << <<"K1", "1">>, {"B", "M", "M1", "-"}>>, << <<"K1", "2">>, {"B", "M", "GND", "NC"}>> >>)]

Swd ==
  [Board([U1 |-> Mcu(<<Io("3", "PA13", {"swdio"}), Io("4", "PB3", {"swo"})>>), J9 |-> Plug,
          J1 |-> Symbol({"swd", "ten", "connector", "J"}, {"debug"},
                      <<P("1", "1", "passive", {}), P("2", "2", "passive", {}), P("3", "3", "passive", {}),
                        P("6", "6", "passive", {}), P("7", "7", "passive", {}),
                        P("8", "8", "passive", {})>>)], <<"U1", "J9", "J1">>)
     EXCEPT !.offers = Offers(Rails @@ (<<"J1", "3">> :> "GND") @@ (<<"J1", "1">> :> "VCC")
                              @@ (<<"U1", "3">> :> "A"), <<
       << <<"J1", "2">>, {"A", "C", "-"}>>,
       << <<"J1", "6">>, {"B", "C", "GND", "NC", "-"}>>, << <<"J1", "7">>, {"GND", "NC", "-"}>>,
       << <<"J1", "8">>, {"VCC", "B", "NC"}>>, << <<"U1", "4">>, {"B", "C", "-"}>> >>)]

Buck ==
  [Board([U1 |-> Symbol({"buck", "converter", "power_ic"}, {"buck"},
                      <<P("1", "VIN", "power_in", {}), P("2", "GND", "power_in", {"gnd"}),
                        P("3", "SW", "output", {}), P("4", "RT", "input", {})>>), J9 |-> Plug,
          L1 |-> Two({"buck", "inductor"}, {"buck"}),
          C1 |-> Two({"buck", "input", "capacitor", "C"}, {"buck"}),
          C2 |-> Two({"buck", "output", "capacitor", "C"}, {"buck"}),
          R1 |-> Two({"buck", "timing", "R"}, {"buck"})], <<"U1", "J9", "L1", "C1", "C2", "R1">>)
     EXCEPT !.offers = Offers(Rails @@ (<<"U1", "3">> :> "A") @@ (<<"U1", "4">> :> "M")
                              @@ (<<"C1", "1">> :> "VCC") @@ (<<"C1", "2">> :> "GND"), <<
       << <<"L1", "1">>, {"A", "GND", "-"}>>, << <<"L1", "2">>, {"A", "B", "-"}>>,
       << <<"C2", "1">>, {"B", "C", "-"}>>, << <<"C2", "2">>, {"GND", "B"}>>,
       << <<"R1", "1">>, {"M", "GND", "-"}>>, << <<"R1", "2">>, {"GND", "VCC"}>> >>)]

OnePatch(p, m) == [put |-> p :> m, drop |-> {}, remove |-> {}, ncAdd |-> {}, ncDel |-> {}, added |-> {}]
NoPatch == [put |-> <<>>, drop |-> {}, remove |-> {}, ncAdd |-> {}, ncDel |-> {}, added |-> {}]
ControlNets == (<<"U1", "3">> :> "A") @@ (<<"U1", "4">> :> "B")
ControlPins == {<<"S1", "1">>, <<"R1", "1">>, <<"C1", "1">>, <<"C1", "2">>, <<"U1", "3">>, <<"J9", "1">>}
ControlParts ==
  [U1 |-> Mcu(<<Io("3", "NRST", {"critical"}), Io("4", "BOOT0", {"critical"})>>), J9 |-> Plug,
   S1 |-> Two({"reset", "switch"}, {"reset"}),
   R1 |-> Two({"boot", "pulldown", "R"}, {"boot"}),
   C1 |-> Two({"decoupling", "C"}, {"core"}),
   R9 |-> Two({"reset", "pullup", "R"}, {"reset"})]
Control ==
  [Board(ControlParts, <<"U1", "J9", "S1", "R1", "C1", "R9">>)
     EXCEPT !.board.sel = {"U1", "J9", "S1", "R1", "C1"},
            !.offers = Offers(Rails @@ ControlNets, <<
              << <<"S1", "1">>, {"A", "C", "-"}>>, << <<"S1", "2">>, {"GND", "C", "NC"}>>,
              << <<"R1", "1">>, {"B", "-"}>>, << <<"R1", "2">>, {"GND", "VCC", "-"}>>,
              << <<"C1", "1">>, {"VCC", "-"}>>, << <<"C1", "2">>, {"GND", "-"}>> >>)]

\* The same board with few proposals and many patches for what they lack, and two
\* parts, wired to each other, that no such failure is about.
SpareNets == (<<"J8", "1">> :> "M") @@ (<<"J8", "2">> :> "M1") @@ (<<"J8", "3">> :> "M")
             @@ (<<"R7", "1">> :> "M") @@ (<<"R7", "2">> :> "M1")
Repaired ==
  [Board([J8 |-> Symbol({"connector", "J"}, {"spare"},
                      <<Io("1", "SIG", {}), Io("2", "RET", {}), Io("3", "TAP", {})>>),
          R7 |-> Two({"R"}, {"spare"})] @@ ControlParts,
         <<"U1", "J9", "S1", "R1", "C1", "J8", "R7", "R9">>) EXCEPT
     !.board.sel = {"U1", "J9", "S1", "R1", "C1", "J8", "R7"},
     !.offers = {Empty} \cup Offers(Rails @@ ControlNets @@ SpareNets @@ (<<"C1", "1">> :> "VCC"), <<
       << <<"S1", "1">>, {"A", "C"}>>, << <<"S1", "2">>, {"C", "NC"}>>,
       << <<"R1", "1">>, {"B"}>>, << <<"R1", "2">>, {"GND", "VCC"}>>, << <<"C1", "2">>, {"GND"}>> >>),
     !.patches = {OnePatch(p, m) : p \in ControlPins, m \in {"GND", "VCC", "A", "C", "M"}}
       \cup {OnePatch(<<"R7", "1">>, "VCC"), [NoPatch EXCEPT !.remove = {<<"J8", "3">>}]}
       \cup {[NoPatch EXCEPT !.drop = {m}] : m \in {"VCC", "A", "B", "C"}}
       \cup {[NoPatch EXCEPT !.remove = {p}] : p \in ControlPins}
       \cup {[NoPatch EXCEPT !.ncAdd = {p}] : p \in ControlPins}
       \cup {[NoPatch EXCEPT !.ncDel = {<<"S1", "2">>}, !.put = <<"S1", "2">> :> "GND"],
             [NoPatch EXCEPT !.added = {"R9"},
                !.put = (<<"R9", "1">> :> "A") @@ (<<"R9", "2">> :> "VCC")]}]

Card ==
  [Board([U1 |-> Mcu(<<Io("3", "PA5", {}), Io("4", "PA6", {})>>), J9 |-> Plug,
          J1 |-> Symbol({"microsd", "socket", "J"}, {"microsd"},
                      <<Vdd("1"), Gnd("2"), Io("3", "CMD", {}), Io("4", "DAT0", {}),
                        Io("5", "DAT1", {}), Io("6", "DAT2", {})>>)], <<"U1", "J9", "J1">>)
     EXCEPT !.board.spi = TRUE,
            !.offers = Offers(Rails @@ (<<"J1", "VDD">> :> "VCC") @@ (<<"J1", "GND">> :> "GND")
                              @@ (<<"J1", "CMD">> :> "A"), <<
       << <<"U1", "PA5">>, {"A", "B", "NC"}>>, << <<"U1", "4">>, {"B", "C", "-"}>>,
       << <<"J1", "4">>, {"B", "NC", "-"}>>, << <<"J1", "DAT1">>, {"B", "C", "NC", "-"}>>,
       << <<"J1", "6">>, {"C", "GND", "NC", "-"}>> >>)]

\* A connector with twin ground pins, whose supply pin the small parts vote for.
Header ==
  [Board([U1 |-> Mcu(<<Io("3", "PA0", {}), Io("4", "PA1", {})>>), J9 |-> Plug,
          J1 |-> Symbol({"connector", "J"}, {"bus"},
                      <<P("1", "V", "passive", {}), P("2", "G", "passive", {}), P("3", "G", "passive", {}),
                        Io("4", "SDA", {}), Io("5", "SCL", {})>>),
          R1 |-> Two({"R"}, {"bus"}), R2 |-> Two({"R"}, {"bus"})], <<"U1", "J9", "J1", "R1", "R2">>)
     EXCEPT !.offers = Offers(Rails @@ (<<"R1", "1">> :> "A") @@ (<<"R2", "1">> :> "B")
                              @@ (<<"U1", "3">> :> "A") @@ (<<"U1", "4">> :> "B"), <<
       << <<"J1", "1">>, {"VCC", "NC", "-"}>>, << <<"J1", "2">>, {"GND", "C", "-"}>>,
       << <<"J1", "3">>, {"GND", "NC", "-"}>>, << <<"J1", "4">>, {"A", "B"}>>,
       << <<"J1", "5">>, {"B", "-"}>>, << <<"R1", "2">>, {"VCC", "GND"}>>,
       << <<"R2", "2">>, {"VCC", "-"}>> >>)]

MCDesigns == [batched |-> Batched, usb |-> Usb, crystal |-> Crystal, can |-> Can, swd |-> Swd,
             buck |-> Buck, control |-> Control, repaired |-> Repaired, card |-> Card, header |-> Header]
MCDirectPins == [d \in DOMAIN MCDesigns |-> IF d = "batched" THEN 7 ELSE 20]
MCContexts == [d \in DOMAIN MCDesigns |-> IF d = "batched" THEN [required : BOOLEAN, first : BOOLEAN]
                                         ELSE {[required |-> FALSE, first |-> d = "repaired"]}]
=============================================================================
