----------------------------- MODULE Elaboration -----------------------------
(***************************************************************************)
(* verilog.elaborate: a table of modules is flattened into one design      *)
(* index, under a budget of objects and a bound on the depth.              *)
(*                                                                         *)
(* A name is a sequence of components: an ordinary identifier has one, an  *)
(* escaped identifier with dividers in it has several.  A flattened path,  *)
(* in the code a string joined by "/", is the concatenation; what it was   *)
(* joined from is lost, as in the code.  Connections are by name, of       *)
(* scalars; positions, buses and the choice of a top are left out.         *)
(* Union-find is abstracted to the root that each net has.                 *)
(***************************************************************************)
EXTENDS Integers, Sequences, FiniteSets, SequencesExt

CONSTANTS
  Netlists,  \* what may be elaborated, see Netlist
  Cells,     \* the leaf types, with `known' FALSE for one without metadata
  NoSignal,  \* a constant, or an expression that is not a signal
  Limits,    \* values of MAX_ELABORATION_OBJECTS to try
  MaxDepth   \* MAX_HIERARCHY_DEPTH

Name == Seq(STRING) \ {<<>>}

(* A port in no declaration, and a pin of which Liberty says something     *)
(* else, are of unknown direction.                                         *)
Directions == {"input", "output", "inout", "unknown"}

Cell(c) ==
  /\ DOMAIN c = {"direction", "sequential", "depends", "known"}
  /\ \A pin \in DOMAIN c.direction : c.direction[pin] \in Directions
  /\ \A pin \in DOMAIN c.depends : c.depends[pin] \subseteq DOMAIN c.direction

(* An instance of a module or a cell, and the signals at its pins.         *)
Instantiation(c) ==
  /\ DOMAIN c = {"name", "type", "connections"} /\ c.name \in Name
  /\ IsFiniteSet(DOMAIN c.connections) /\ DOMAIN c.connections \subseteq Name
  /\ \A pin \in DOMAIN c.connections : c.connections[pin] \in Name \cup {NoSignal}

(* A module has ports with directions, nets (its ports among them), scalar *)
(* assignments, and instances.                                             *)
Module(m) ==
  /\ DOMAIN m = {"direction", "nets", "aliases", "children"}
  /\ IsFiniteSet(m.nets) /\ m.nets \subseteq Name /\ DOMAIN m.direction \subseteq m.nets
  /\ \A p \in DOMAIN m.direction : m.direction[p] \in Directions
  /\ Len(m.aliases) \in Nat /\ DOMAIN m.aliases = 1..Len(m.aliases)
  /\ \A i \in DOMAIN m.aliases : m.aliases[i] \in Name \X Name
  /\ Len(m.children) \in Nat /\ DOMAIN m.children = 1..Len(m.children)
  /\ \A i \in DOMAIN m.children : Instantiation(m.children[i])

(* An instance is of a module or a cell; a type without metadata is a cell *)
(* that is not known.                                                      *)
Netlist(v) ==
  /\ DOMAIN v.modules \cap DOMAIN Cells = {} /\ v.top \in DOMAIN v.modules
  /\ \A type \in DOMAIN v.modules :
       /\ Module(v.modules[type])
       /\ \A i \in DOMAIN v.modules[type].children :
            v.modules[type].children[i].type \in DOMAIN v.modules \cup DOMAIN Cells

ASSUME ElaborationConstants ==
  /\ \A type \in DOMAIN Cells : Cell(Cells[type])
  /\ \A v \in Netlists : Netlist(v)
  /\ NoSignal \notin Name
  /\ Limits \subseteq Nat /\ MaxDepth \in Nat \ {0}

VARIABLES
  netlist, limit,
  frames,     \* the activations of `visit', the last one at work
  remaining,  \* objects left in the budget
  warnings,   \* the kinds of warnings made
  ports, nets, instances, pins, drivers, loads, arcs,  \* the design index
  origin,     \* history: what a pin was built from
  done

vars == <<netlist, limit, frames, remaining, warnings, ports, nets, instances, pins,
          drivers, loads, arcs, origin, done>>
index == <<instances, pins, drivers, loads, arcs, origin>>

Modules == netlist.modules
Top == Modules[netlist.top]

Empty == [x \in {} |-> {}]

Call(type, at, prefix, bindings) ==
  [type |-> type, at |-> at, prefix |-> prefix, bindings |-> bindings,
   local |-> Empty, next |-> 0]

Init ==
  /\ netlist \in Netlists /\ limit \in Limits
  /\ frames = <<Call(netlist.top, <<>>, <<>>, [p \in DOMAIN Top.direction |-> p])>>
  /\ remaining = limit /\ warnings = {}
  /\ ports = [p \in DOMAIN Top.direction |-> [direction |-> Top.direction[p], net |-> p]]
  /\ nets = Top.nets /\ instances = Empty /\ pins = Empty
  /\ drivers = Empty /\ loads = Empty /\ arcs = {}
  /\ origin = {} /\ done = FALSE

-----------------------------------------------------------------------------
F == Last(frames)
M == Modules[F.type]

Warn(kinds) == warnings' = warnings \cup kinds
Return == frames' = Front(frames)

(* reserve_elaboration: one object that does not fit uses up the rest.     *)
(* `others' are warnings that the caller has made before it asks.          *)
ReserveKeepingRest(amount, others) ==   \* faulty variant: smaller objects still fit, unreported
  /\ Warn(others)
  /\ IF amount <= remaining THEN remaining' = remaining - amount ELSE UNCHANGED remaining

Reserve(amount, others) ==
  IF amount <= remaining THEN remaining' = remaining - amount /\ Warn(others)
  ELSE remaining' = 0 /\ Warn({"limit"} \cup others)

(* The nets of an activation, before and after its assignments.            *)
Bound == [n \in M.nets |-> IF n \in DOMAIN F.bindings THEN F.bindings[n] ELSE F.prefix \o n]

Outputs(m) == {p \in DOMAIN m.direction : m.direction[p] \in {"output", "inout"}}

KeepsLeftAlways(left, right) ==   \* faulty variant: the assigned side names the net
  TRUE

KeepsLeft(left, right) ==
  \/ left \in DOMAIN F.bindings
  \/ right \notin DOMAIN F.bindings /\ left \in Outputs(M)

Join(root, alias) ==
  LET left == alias[1]  right == alias[2]
      Rename(old, new) == [n \in DOMAIN root |-> IF root[n] = old THEN new ELSE root[n]]
  IN  IF ~{left, right} \subseteq M.nets THEN root
      ELSE IF KeepsLeft(left, right) THEN Rename(root[right], root[left])
      ELSE Rename(root[left], root[right])

(* Every assignment in turn.                                               *)
Joined ==
  LET roots[i \in 0..Len(M.aliases)] ==
        IF i = 0 THEN Bound ELSE Join(roots[i - 1], M.aliases[i])
  IN  roots[Len(M.aliases)]

(* visit, up to the loop over the instances.  A root is kept per net of    *)
(* the module: nets bound to one outer net have one root from the start.   *)
EnterModule ==
  /\ frames # <<>> /\ F.next = 0 /\ UNCHANGED <<netlist, limit, index, done>>
  /\ CASE \E i \in DOMAIN frames : i < Len(frames) /\ frames[i].type = F.type ->
            Warn({"recursive"}) /\ Return /\ UNCHANGED <<remaining, ports, nets>>
       [] OTHER ->
            IF Len(frames) > MaxDepth
            THEN Warn({"depth"}) /\ Return /\ UNCHANGED <<remaining, ports, nets>>
            ELSE /\ Reserve(Cardinality(M.nets) + 1, {})
                 /\ IF Cardinality(M.nets) + 1 > remaining
                    THEN Return /\ UNCHANGED <<ports, nets>>
                    ELSE LET local == Joined
                         IN  /\ frames' = [frames EXCEPT ![Len(frames)].local = local,
                                                         ![Len(frames)].next = 1]
                             /\ nets' = nets \cup {Bound[n] : n \in M.nets}
                             /\ ports' = IF F.prefix # <<>> THEN ports
                                  ELSE [p \in DOMAIN ports |-> [ports[p] EXCEPT !.net = local[p]]]

LeaveModule ==
  /\ frames # <<>> /\ F.next > Len(M.children) /\ Return
  /\ UNCHANGED <<netlist, limit, remaining, warnings, ports, nets, index, done>>

Child == M.children[F.next]
Path == F.prefix \o Child.name

(* An undeclared signal is a net of the module at hand.                    *)
ResolveGlobally(signal) ==   \* faulty variant: forgets the prefix
  IF signal \in DOMAIN F.local THEN F.local[signal] ELSE signal

Resolve(signal) ==
  IF signal \in DOMAIN F.local THEN F.local[signal] ELSE F.prefix \o signal

Signals == {p \in DOMAIN Child.connections : Child.connections[p] # NoSignal}
Advance == [frames EXCEPT ![Len(frames)].next = @ + 1]

EnterChild ==
  /\ frames # <<>> /\ F.next \in DOMAIN M.children /\ Child.type \in DOMAIN Modules
  /\ frames' = Append(Advance,
       Call(Child.type, Append(F.at, Child.name), Path,
            [p \in Signals |-> Resolve(Child.connections[p])]))
  /\ UNCHANGED <<netlist, limit, remaining, warnings, ports, nets, index, done>>

-----------------------------------------------------------------------------
(* A leaf cell, with all its pins at once.                                 *)
AtLeaf ==
  /\ frames # <<>> /\ F.next \in DOMAIN M.children /\ Child.type \notin DOMAIN Modules

Collide ==
  /\ AtLeaf /\ Path \in DOMAIN instances /\ Warn({"collision"}) /\ frames' = Advance
  /\ UNCHANGED <<netlist, limit, remaining, ports, nets, index, done>>

Direction(p) ==
  LET given == Cells[Child.type].direction
  IN  IF p \in DOMAIN given THEN given[p] ELSE "unknown"

NetOf(p) == IF p \in Signals THEN Resolve(Child.connections[p]) ELSE NoSignal

(* f with the pins of S added to the entries of their nets.                *)
Attach(f, S) ==
  [n \in DOMAIN f \cup {NetOf(p) : p \in S} |->
     (IF n \in DOMAIN f THEN f[n] ELSE {}) \cup {Path \o p : p \in {q \in S : NetOf(q) = n}}]

Override(f, g) == [x \in DOMAIN f \cup DOMAIN g |-> IF x \in DOMAIN g THEN g[x] ELSE f[x]]

Connected(dirs) == {p \in Signals : Direction(p) \in dirs}

Fits == Cardinality(DOMAIN Child.connections) + 1 <= remaining

PlaceLeaf ==
  /\ AtLeaf /\ Path \notin DOMAIN instances /\ UNCHANGED <<netlist, limit, ports, done>>
  /\ LET given   == DOMAIN Child.connections
         cell    == Cells[Child.type]
         guessed == IF cell.known THEN {} ELSE {"inferred"}
         built   == [p \in given |-> [instance |-> Path, name |-> p,
                                      direction |-> Direction(p), net |-> NetOf(p)]]
         inputs  == Connected({"input", "inout"})
         blind   == {p \in Connected({"output", "inout"}) : p \notin DOMAIN cell.depends}
     IN  IF ~Fits
         THEN /\ Reserve(Cardinality(given) + 1, guessed) /\ Return /\ UNCHANGED <<nets, index>>
         ELSE /\ remaining' = remaining - (Cardinality(given) + 1) /\ frames' = Advance
              /\ pins' = Override(pins, [path \in {Path \o p : p \in given} |->
                   built[CHOOSE p \in given : Path \o p = path]])
              /\ nets' = nets \cup {NetOf(p) : p \in Signals}
              /\ drivers' = Attach(drivers, Connected({"output"}))
              /\ loads' = Attach(loads, Signals \ Connected({"output"}))
              /\ instances' = Override(instances, [path \in {Path} |->
                   [type |-> Child.type, pins |-> built, sequential |-> cell.sequential]])
              /\ arcs' = arcs \cup (IF cell.sequential THEN {} ELSE
                   {<<Path \o io[1], Path \o io[2]>> : io \in
                      {x \in inputs \X (Connected({"output", "inout"}) \ blind) :
                         x[1] \in cell.depends[x[2]]}})
              /\ Warn(guessed \cup
                      (IF ~cell.sequential /\ blind # {} /\ inputs # {} THEN {"arcs"} ELSE {}))
              /\ origin' = origin \cup
                   {[path |-> Path \o p, at |-> F.at, child |-> F.next, pin |-> p,
                     signal |-> Child.connections[p]] : p \in given}

-----------------------------------------------------------------------------
(* A port of the top drives or loads the net that it has by now; one of    *)
(* unknown direction loads it.                                             *)
AddPorts(f, dirs, netOf) ==
  LET P == {p \in DOMAIN ports : ports[p].direction \in dirs}
  IN  [n \in DOMAIN f \cup {netOf[p] : p \in P} |->
         (IF n \in DOMAIN f THEN f[n] ELSE {}) \cup {p \in P : netOf[p] = n}]

FinishByName ==   \* faulty variant: takes the net named like the port
  /\ frames = <<>> /\ ~done /\ done' = TRUE
  /\ LET netOf == [p \in DOMAIN ports |-> p]
     IN  /\ drivers' = AddPorts(drivers, {"input", "inout"}, netOf)
         /\ loads' = AddPorts(loads, {"output", "unknown"}, netOf)
  /\ UNCHANGED <<netlist, limit, frames, remaining, warnings, ports, nets, instances, pins, arcs,
                 origin>>

Finish ==
  /\ frames = <<>> /\ ~done /\ done' = TRUE
  /\ LET netOf == [p \in DOMAIN ports |-> ports[p].net]
     IN  /\ drivers' = AddPorts(drivers, {"input", "inout"}, netOf)
         /\ loads' = AddPorts(loads, {"output", "unknown"}, netOf)
  /\ UNCHANGED <<netlist, limit, frames, remaining, warnings, ports, nets, instances, pins, arcs,
                 origin>>

Next == EnterModule \/ LeaveModule \/ EnterChild \/ Collide \/ PlaceLeaf \/ Finish

Spec == Init /\ [][Next]_vars

-----------------------------------------------------------------------------
(* The reference: the occurrences of modules and cells, read off the       *)
(* structure level by level, and the wires, as the edges between the nets  *)
(* of occurrences.                                                         *)
Children(o) == Range(Modules[o.type].children)

Inside(o) ==
  {[at |-> Append(o.at, c.name), type |-> c.type] :
     c \in {k \in Children(o) : k.type \in DOMAIN Modules}}

Levels[d \in 0..MaxDepth] ==
  IF d = 0 THEN {[at |-> <<>>, type |-> netlist.top]}
  ELSE UNION {Inside(o) : o \in Levels[d - 1]}

Occurrences == UNION {Levels[d] : d \in 0..(MaxDepth - 1)}

(* Every occurrence of a cell: where, and which child.                     *)
Leaves == UNION {{[at |-> o.at, index |-> i, child |-> Modules[o.type].children[i]] :
                    i \in {k \in DOMAIN Modules[o.type].children :
                             Modules[o.type].children[k].type \notin DOMAIN Modules}} :
                 o \in Occurrences}

LeafPath(l) == FlattenSeq(l.at) \o l.child.name

Bounded == Levels[MaxDepth] = {}
Unambiguous == \A k, l \in Leaves : LeafPath(k) = LeafPath(l) => k = l

(* What an elaboration builds: each module and cell, here <<>>, with its   *)
(* nets or pins.                                                           *)
Parts(x, names) == {<<x, n>> : n \in names \cup {<<>>}}
Objects(occurrences, leaves) ==
  (UNION {Parts(o, Modules[o.type].nets) : o \in occurrences})
  \cup (UNION {Parts(l, DOMAIN l.child.connections) : l \in leaves})
Cost == Cardinality(Objects(Occurrences, Leaves))

Cuts == {"recursive", "depth", "limit", "collision"}

(* An elaboration is cut short exactly when a warning of it says so; one   *)
(* without such a warning has every pin of every cell of the structure.    *)
(* Warnings end in OC0002 and in no coverage: a silently truncated design  *)
(* would pass.  (verilog.py reserve_elaboration, visit)                    *)
CutIffWarned ==
  done =>
    /\ warnings \cap Cuts = {} <=> Bounded /\ Unambiguous /\ Cost <= limit
    /\ warnings \cap Cuts = {} =>
         {[at |-> b.at, child |-> b.child, pin |-> b.pin] : b \in origin}
           = UNION {{[at |-> l.at, child |-> l.index, pin |-> p] :
                       p \in DOMAIN l.child.connections} : l \in Leaves}

(* The tables of the index are views of one design: the drivers and loads  *)
(* of a net are the pins and top ports that are on it, with their          *)
(* directions; pins are those of the instances; arcs stay in a cell.       *)
(* (visit, after aliases have renamed nets; elaborate's last loop)         *)
IndexConsistent ==
  done =>
    /\ \A path \in DOMAIN pins : pins[path] = instances[pins[path].instance].pins[pins[path].name]
    /\ \A i \in DOMAIN instances : \A p \in DOMAIN instances[i].pins : i \o p \in DOMAIN pins
    /\ LET On(net, pinDirections, portDirections) ==
             {path \in DOMAIN pins : pins[path].net = net /\ pins[path].direction \in pinDirections}
               \cup {p \in DOMAIN ports : ports[p].net = net /\ ports[p].direction \in portDirections}
       IN  /\ DOMAIN drivers \cup DOMAIN loads \subseteq nets
           /\ \A n \in nets :
                /\ (IF n \in DOMAIN drivers THEN drivers[n] ELSE {})
                     = On(n, {"output"}, {"input", "inout"})
                /\ (IF n \in DOMAIN loads THEN loads[n] ELSE {})
                     = On(n, {"input", "inout", "unknown"}, {"output", "unknown"})
    /\ \A a \in arcs :
         /\ pins[a[1]].instance = pins[a[2]].instance /\ ~instances[pins[a[1]].instance].sequential
         /\ pins[a[1]].direction # "output" /\ pins[a[2]].direction # "input"

(* The wires of the structure: assignments inside a module and ports       *)
(* connected from outside.  A node is a net of an occurrence.              *)
Wires(o) ==
  {<<[at |-> o.at, net |-> a[1]], [at |-> o.at, net |-> a[2]]>> :
     a \in {b \in Range(Modules[o.type].aliases) : {b[1], b[2]} \subseteq Modules[o.type].nets}}
  \cup UNION {{<<[at |-> Append(o.at, c.name), net |-> p], [at |-> o.at, net |-> c.connections[p]]>> :
                 p \in {q \in DOMAIN c.connections : c.connections[q] # NoSignal}} :
              c \in {k \in Children(o) : k.type \in DOMAIN Modules}}

(* The partition of nodes by edges, as the representative of each, from    *)
(* one edge after the other.                                               *)
Unite(nodes, class, e) ==
  [n \in nodes |-> IF class[n] = class[e[1]] THEN class[e[2]] ELSE class[n]]

Merged(nodes, edges) ==
  LET left[i \in 0..Cardinality(edges)] ==
        IF i = 0 THEN edges ELSE left[i - 1] \ {CHOOSE e \in left[i - 1] : TRUE}
      class[i \in 0..Cardinality(edges)] ==
        IF i = 0 THEN [n \in nodes |-> n]
        ELSE Unite(nodes, class[i - 1], CHOOSE e \in left[i - 1] : TRUE)
  IN  class[Cardinality(edges)]

Class ==
  LET wires == UNION {Wires(o) : o \in Occurrences}
      names == UNION {Modules[t].nets : t \in DOMAIN Modules}
      nodes == {[at |-> o.at, net |-> n] : o \in Occurrences, n \in names}
               \cup {e[1] : e \in wires} \cup {e[2] : e \in wires}
               \cup {[at |-> b.at, net |-> b.signal] : b \in origin}
  IN  Merged(nodes, wires)

(* Where the index can be seen: pins, with the net of the structure they   *)
(* were connected to, and the ports of the top.                            *)
Probes ==
  {[node |-> [at |-> b.at, net |-> b.signal], net |-> pins[b.path].net] :
     b \in {c \in origin : c.signal # NoSignal}}
  \cup {[node |-> [at |-> <<>>, net |-> p], net |-> ports[p].net] : p \in DOMAIN ports}

(* Nothing is shorted: what has one net in the index is wired together in  *)
(* the structure, also in a design that was cut short.  A short would let  *)
(* a clock reach registers it does not drive.  (resolve, alias_root)       *)
NetsSound ==
  done => LET class == Class  probes == Probes
          IN  \A x, y \in probes : x.net = y.net => class[x.node] = class[y.node]

(* The assignments of a module leave the nets of the outside alone if each *)
(* assignment that a connected port is part of, directly or not, names     *)
(* that port, and no other one.                                            *)
Direct(o) ==
  LET m     == Modules[o.type]
      bound == {e[1].net : e \in {w \in UNION {Wires(q) : q \in Occurrences} :
                                    w[1].at = o.at /\ w[2].at # o.at}}
      real  == {a \in Range(m.aliases) : {a[1], a[2]} \subseteq m.nets}
      class == Merged(m.nets, real)
  IN  \A p \in bound \cap m.nets : \A a \in real :
        class[a[1]] = class[p] => {a[1], a[2]} \cap bound = {p}

(* Nothing is cut: what is wired together has one net, as long as no       *)
(* module below the top assigns in a chain what it has connected outside.  *)
(* A cut would hide the registers of a clock.  (visit, KeepsLeft)          *)
NetsComplete ==
  done /\ warnings \cap Cuts = {} /\ (\A o \in Occurrences : o.at # <<>> => Direct(o)) =>
    LET class == Class  probes == Probes
    IN  \A x, y \in probes : class[x.node] = class[y.node] => x.net = y.net
=============================================================================
