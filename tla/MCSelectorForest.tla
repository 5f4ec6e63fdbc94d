-------------------------- MODULE MCSelectorForest --------------------------
(* A buffer c between the input a and the inout zzz, a register r in an    *)
(* instance u with its output unconnected; every port is also the name of  *)
(* its net.                                                                *)
EXTENDS SelectorForest

MCPorts == {"a", "zzz"}
MCCells == {"c", "u/r"}
MCPins == {"c/A", "c/Y", "u/r/D", "u/r/Q"}
MCNets == {"a", "zzz", "u/n"}
MCClocks == {"k"}

MCOwner == [p \in MCPins |-> IF p \in {"c/A", "c/Y"} THEN "c" ELSE "u/r"]
MCNetOf == [o \in MCPorts \cup MCPins |->
  CASE o \in {"a", "c/A"} -> "a" [] o \in {"zzz", "c/Y", "u/r/D"} -> "zzz" [] OTHER -> NoNet]

MCLimits == 0..96

Names == MCPorts \cup MCCells \cup MCPins \cup MCNets \cup MCClocks
MCWidth == [n \in Names |->
  CASE n \in {"a", "c", "k"} -> 1 [] n \in {"u/r/D", "u/r/Q"} -> 5 [] OTHER -> 3]
MCLocalWidth == [n \in Names |-> IF n \in {"a", "c", "u/r", "u/n", "k"} THEN 1 ELSE 3]
MCDepth == [n \in Names |->
  CASE n \in {"u/r/D", "u/r/Q"} -> 2 [] n \in {"c/A", "c/Y", "u/r", "u/n"} -> 1 [] OTHER -> 0]

-----------------------------------------------------------------------------
Literal(n) == [size |-> 2, star |-> FALSE, wild |-> FALSE, depth |-> 0, hits |-> {n},
               engine |-> "fits"]
Glob(depth, hits) == [Literal("a") EXCEPT !.wild = TRUE, !.depth = depth, !.hits = hits]
Star == [Glob(0, Names) EXCEPT !.size = 2, !.star = TRUE]
Missing == [Literal("a") EXCEPT !.hits = {}]

Get(kind, patterns) ==
  [kind |-> kind, all |-> kind \in WholeKinds, patterns |-> patterns,
   hierarchical |-> FALSE, regexp |-> FALSE,
   filter |-> NoFilter, of |-> 0, nested |-> <<>>, refused |-> "no"]
Of(kind, s) == [Get(kind, <<>>) EXCEPT !.of = s, !.nested = <<s>>]

Command(roots, nodes) == [roots |-> roots, node |-> nodes]

MCForests == {
  \* two collections of one kind, walked and looked up; the second is cheap
  Command(<<1, 2>>, <<Get("ports", <<Glob(0, {"zzz"})>>), Get("ports", <<Literal("a")>>)>>),
  \* the walk of a level of the hierarchy, a literal after it, a missing name
  Command(<<1, 2>>, <<Get("cells", <<Glob(1, {"u/r"}), Literal("c"), Star>>),
                      Get("nets", <<Glob(0, {"a"}), Missing>>)>>),
  \* -of_objects in a chain, with ends that meet in one object
  Command(<<1, 4>>, <<Of("ports", 2), Of("nets", 3), Get("cells", <<Star, Star>>),
                      Get("pins", <<Star>>)>>),
  Command(<<1, 1>>, <<Of("cells", 2), Of("pins", 3), Get("nets", <<Literal("zzz"), Star>>)>>),
  Command(<<1>>, <<[Of("cells", 2) EXCEPT !.filter =
                      [size |-> 3, keeps |-> {"u/r"}, supported |-> TRUE]],
                   Get("all_inputs", <<>>)>>),
  \* queries that have no answer, and the ones nested in them
  Command(<<1, 3, 4>>, <<[Get("nets", <<>>) EXCEPT !.nested = <<2>>, !.refused = "parse"],
                         Get("registers", <<Glob(0, {"u/r"})>>),
                         Of("clocks", 5),
                         [Get("ports", <<>>) EXCEPT !.refused = "dynamic"],
                         Get("all_clocks", <<>>)>>),
  Command(<<1>>, <<Of("nets", 2), Of("cells", 3),
                   Get("ports", <<[Glob(0, {}) EXCEPT !.engine = "fails"]>>)>>),
  Command(<<1, 2>>, <<[Get("pins", <<Glob(1, {"c/A", "u/r/D"})>>) EXCEPT !.hierarchical = TRUE],
                      [Get("clocks", <<[Literal("k") EXCEPT !.engine = "refused"]>>)
                         EXCEPT !.regexp = TRUE]>>),
  \* all registers, which are never too many, and the same asked for by a glob
  Command(<<1, 2>>, <<[Get("registers", <<Star>>) EXCEPT !.all = TRUE],
                      Get("registers", <<Star>>)>>),
  \* a source that is refused before it is asked for what it costs
  Command(<<1>>, <<Of("nets", 2), [Get("cells", <<Star>>) EXCEPT !.refused = "dynamic"]>>),
  Command(<<1, 2>>, <<[Get("ports", <<Literal("a")>>) EXCEPT !.regexp = TRUE],
                      [Get("ports", <<Star>>) EXCEPT !.filter =
                         [size |-> 2, keeps |-> {}, supported |-> FALSE]]>>)
}
=============================================================================
