------------------------ MODULE MCClockDefinitions --------------------------
(***************************************************************************)
(* clk drives a buffer u whose net n clocks the register f; f drives out.  *)
(* A clock on clk therefore reaches n and f/CK but neither f/Q nor out,    *)
(* which only a (generated) clock of their own can reach.                  *)
(***************************************************************************)
EXTENDS ClockDefinitions

PortNames == {"clk", "out"}
PinNames  == {"u/A", "u/Y", "f/CK", "f/Q"}
NetNames  == {"clk", "n", "out"}
InstanceNames == {"u", "f"}

SmallDesign ==
  [ portNet    |-> [p \in PortNames |-> p],
    pinNet     |-> [p \in PinNames |-> CASE p = "u/A" -> "clk"
                                         [] p \in {"u/Y", "f/CK"} -> "n"
                                         [] OTHER -> "out"],
    instanceOf |-> [p \in PinNames |-> IF p \in {"u/A", "u/Y"} THEN "u" ELSE "f"],
    sequential |-> {"f"},
    loads      |-> [n \in NetNames |-> CASE n = "clk" -> {"u/A"}
                                         [] n = "n" -> {"f/CK"}
                                         [] OTHER -> {"out"}],
    arcs       |-> [p \in PinNames |-> IF p = "u/A" THEN {"u/Y"} ELSE {}] ]

Rank == [p \in PortNames \cup PinNames |->
           CASE p = "clk" -> 1 [] p = "f/CK" -> 2 [] p = "f/Q" -> 3
             [] p = "out" -> 4 [] p = "u/A" -> 5 [] OTHER -> 6]

MasterAndChild == {"m", "g"}
OneAndTwo == {1, 2}

(* -period is absent or undecodable in some commands, some are malformed,  *)
(* and one has no -name and takes that of its first target.                *)
SomePrimaries ==
  [name : MasterAndChild, targets : {{"clk"}, {"f/Q"}}, period : {1, 2},
   add : BOOLEAN, malformed : {FALSE}]
  \cup [name : MasterAndChild, targets : {{"clk"}}, period : {1, NoPeriod},
        add : BOOLEAN, malformed : {TRUE}]
  \cup [name : {"m"}, targets : {{"clk"}}, period : {NoPeriod},
        add : {FALSE}, malformed : {FALSE}]
  \cup [name : {NoName}, targets : {{"out", "f/Q"}}, period : {1},
        add : {FALSE}, malformed : {FALSE}]

SomeGenerated ==
  [name : MasterAndChild, targets : {{"clk"}, {"f/Q"}}, source : {{"u/Y"}, {"out"}},
   master : MasterAndChild \cup {NoName}, divide : {2}, add : BOOLEAN, malformed : {FALSE}]
  \cup [name : MasterAndChild, targets : {{"f/Q"}}, source : {{"u/Y"}},
        master : {"m"}, divide : {2}, add : BOOLEAN, malformed : {TRUE}]
  \cup [name : MasterAndChild, targets : {{"f/Q"}}, source : {{}},
        master : {"m"}, divide : {2}, add : {FALSE}, malformed : {FALSE}]
=============================================================================
