------------------------ MODULE MCClockPropagation --------------------------
(***************************************************************************)
(* Two buffers u and v and a cell f that is a register in half of the      *)
(* designs and a gate in the others.  Over four nets, u and f are wired    *)
(* in every way their roles allow and v in three, so combinational loops,  *)
(* dangling outputs, nets with several drivers and both pins of one cell   *)
(* on one net all occur.                                                   *)
(***************************************************************************)
EXTENDS ClockPropagation

PortNames == {"clk", "out"}
NetNames  == {"clk", "n", "m", "out"}
PinNames  == {"u/A", "u/Y", "v/A", "v/Y", "f/CK", "f/Q"}
InstanceNames == {"u", "v", "f"}

OutputPins == {"u/Y", "v/Y", "f/Q"}

Cell(pin) == CASE pin \in {"u/A", "u/Y"} -> "u"
               [] pin \in {"v/A", "v/Y"} -> "v"
               [] OTHER -> "f"

(* combinational_arcs joins connected pins of one non-sequential cell.     *)
ArcsOf(wiring, sequential) ==
  [p \in PinNames |->
     IF p \in OutputPins \/ wiring[p] = NoNet \/ Cell(p) \in sequential
     THEN {}
     ELSE {q \in OutputPins : Cell(q) = Cell(p) /\ wiring[q] # NoNet}]

IndexOf(wiring, sequential) ==
  [ portNet    |-> [p \in PortNames |-> p],
    pinNet     |-> wiring,
    instanceOf |-> [p \in PinNames |-> Cell(p)],
    sequential |-> sequential,
    loads      |-> [n \in NetNames |->
                      {p \in PinNames \ OutputPins : wiring[p] = n}
                        \cup ({"out"} \cap {n})],
    arcs       |-> ArcsOf(wiring, sequential) ]

BufferWirings == {<<"n", "m">>, <<"m", "clk">>, <<"m", "n">>}

Wirings ==
  {[p \in PinNames |-> CASE p = "v/A" -> b[1] [] p = "v/Y" -> b[2]
                         [] p \in OutputPins -> out[p] [] OTHER -> in[p]] :
     in \in [{"u/A", "f/CK"} -> {"clk", "n", "m"}],
     out \in [{"u/Y", "f/Q"} -> {"n", "m", "out", NoNet}],
     b \in BufferWirings}

SmallDesigns == {IndexOf(w, s) : w \in Wirings, s \in {{}, {"f"}}}

SmallTargets == {{"clk"}, {"u/Y"}, {"f/CK", "out"}, {}}
=============================================================================
