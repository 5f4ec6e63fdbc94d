---------------------------- MODULE MCElaboration ----------------------------
(* A top with a module or two around cells, in many wirings.               *)
EXTENDS Elaboration

N(x) == <<x>>

MCCells == [
  BUF |-> [direction |-> N("A") :> "input" @@ N("Y") :> "output",
           sequential |-> FALSE, depends |-> N("Y") :> {N("A")}, known |-> TRUE],
  PAD |-> [direction |-> N("IO") :> "inout" @@ N("EN") :> "input" @@ N("Z") :> "output"
                         @@ N("G") :> "unknown",
           sequential |-> FALSE, depends |-> N("IO") :> {N("EN")}, known |-> TRUE],
  DFF |-> [direction |-> N("D") :> "input" @@ N("Q") :> "output",
           sequential |-> TRUE, depends |-> [x \in {} |-> {}], known |-> FALSE]]

Instance(name, type, connections) == [name |-> name, type |-> type, connections |-> connections]
Buf(name, a, y) == Instance(name, "BUF", N("A") :> a @@ N("Y") :> y)

InOut == N("a") :> "input" @@ N("y") :> "output"

ModuleOf(wires, aliases, children) ==
  [direction |-> InOut, nets |-> {N("a"), N("y")} \cup {N(n) : n \in wires},
   aliases |-> aliases, children |-> children]

-----------------------------------------------------------------------------
(* Wirings of one level: every pair of assignments in the child, and what  *)
(* its buffer and the top's instance of it connect.  The child and the top *)
(* both use a name w that they do not declare.                             *)
Assigns(S) == {<<x, y>> : x, y \in S} \ {<<x, x>> : x \in S}
InChild == Assigns({N("a"), N("y"), N("n")})
ChildAliases == {<<>>} \cup {<<a>> : a \in InChild} \cup {<<a, b>> : a, b \in InChild}

MCWirings ==
  {[top |-> "top",
    modules |-> [
      top |-> ModuleOf({"m", "k"}, alias,
                <<Instance(N("u"), "ch", u), Buf(N("v"), N("m"), N("y"))>>),
      ch  |-> ModuleOf({"n"}, inner, <<Buf(N("b"), N("a"), out)>>)]] :
     alias \in {<<>>, << <<N("m"), N("y")>> >>, << <<N("y"), N("m")>>, <<N("m"), N("k")>> >>},
     u \in {N("a") :> N("a") @@ N("y") :> N("m"), N("a") :> N("m") @@ N("y") :> N("y"),
            N("a") :> N("w") @@ N("y") :> NoSignal, N("a") :> N("a")},
     inner \in ChildAliases, out \in {N("n"), N("y"), N("w")}}

(* Shapes: a module within a module, recursion, cells of each kind, and    *)
(* escaped names that collide with paths of instances; the top also has a  *)
(* port z in no declaration, alone or assigned to y.                       *)
Chain(inside, cell, aliases) ==
  [top |-> "top",
   modules |-> [
     top |-> [ModuleOf({"m", "z"}, aliases,
                <<Instance(N("u"), "mid", N("a") :> N("a") @@ N("y") :> N("m")),
                  cell, Buf(N("v"), N("m"), N("y"))>>)
                EXCEPT !.direction = @ @@ N("z") :> "unknown"],
     mid |-> ModuleOf({}, <<>>, <<Buf(N("b"), N("a"), N("y")),
               Instance(N("c"), inside, N("a") :> N("y") @@ N("y") :> N("a"))>>),
     low |-> ModuleOf({"n"}, << <<N("n"), N("a")>> >>,
               <<Instance(N("d"), "DFF", N("D") :> N("n") @@ N("Q") :> N("y"))>>),
     deep |-> ModuleOf({}, <<>>, <<Instance(N("e"), "low", N("a") :> N("a"))>>)]]

MCShapes ==
  {Chain(inside, cell, aliases) : inside \in {"top", "mid", "low", "deep"},
     aliases \in {<<>>, << <<N("z"), N("y")>> >>},
     cell \in {Buf(N("w"), N("a"), N("y")), Buf(<<"u", "b">>, N("a"), N("y")),
               Buf(<<"u", "c", "d">>, N("a"), N("x")),
               Instance(N("w"), "PAD", N("IO") :> N("y") @@ N("EN") :> N("a")
                                         @@ N("G") :> N("z")),
               Instance(N("w"), "PAD", N("IO") :> NoSignal @@ N("EN") :> N("a") @@ N("Z") :> N("m")
                                         @@ N("T") :> N("y"))}}

MCNetlists == MCWirings \cup MCShapes
MCLimits == 0..31
=============================================================================
