----------------------------- MODULE ClockGraph -----------------------------
(***************************************************************************)
(* The structural index a clock travels on: the part of model.Design that  *)
(* engine._target_nets and engine._propagate_clock read.  Names are        *)
(* opaque.  As in the code, a top-level port and the net behind it usually *)
(* share one name, so Ports and Nets may overlap.                          *)
(***************************************************************************)
CONSTANTS
  Ports,      \* names in design.ports
  Pins,       \* paths in design.pins
  Nets,       \* names in design.nets
  Instances,  \* paths in design.instances
  NoNet       \* the None of an unconnected pin

ASSUME NoNetAssumption == NoNet \notin Nets

DesignIndex ==
  [ portNet    : [Ports -> Nets],
    pinNet     : [Pins -> Nets \cup {NoNet}],
    instanceOf : [Pins -> Instances],
    sequential : SUBSET Instances,
    loads      : [Nets -> SUBSET (Pins \cup Ports)],
    arcs       : [Pins -> SUBSET Pins] ]

(* _target_nets: a target is looked up as a port, then a pin, then a net,  *)
(* then an instance, and the first kind that knows the name decides.       *)
NetsOfPins(design, pins) == {design.pinNet[p] : p \in pins} \ {NoNet}

TargetNets(design, targets) ==
  LET ports     == targets \cap Ports
      pins      == (targets \ Ports) \cap Pins
      connected == {p \in pins : design.pinNet[p] # NoNet}
      nets      == ((targets \ Ports) \ connected) \cap Nets
      instances == (((targets \ Ports) \ connected) \ Nets) \cap Instances
  IN  {design.portNet[p] : p \in ports}
        \cup NetsOfPins(design, connected)
        \cup nets
        \cup NetsOfPins(design, {p \in Pins : design.instanceOf[p] \in instances})

(* One pass of the worklist body for a net: the load pins it touches (a    *)
(* top-level output port is in design.loads too and is skipped), and the   *)
(* outputs of the non-sequential ones.                                     *)
LoadPins(design, net) == design.loads[net] \cap Pins

Outputs(design, net) ==
  UNION {design.arcs[p] : p \in {q \in LoadPins(design, net) :
                                   design.instanceOf[q] \notin design.sequential}}

Touched(design, net) == LoadPins(design, net) \cup Outputs(design, net)

Successors(design, net) == NetsOfPins(design, Outputs(design, net))

-----------------------------------------------------------------------------
(* What the traversal promises, stated without a traversal: the least set  *)
(* of nets that holds the target nets and is closed under Successors.      *)
Closed(design, nets) == \A n \in nets : Successors(design, n) \subseteq nets

ClosedAround(design, targets) ==
  {S \in SUBSET Nets : TargetNets(design, targets) \subseteq S /\ Closed(design, S)}

Reach(design, targets) ==
  {n \in Nets : \A S \in ClosedAround(design, targets) : n \in S}

ReachPins(design, targets) ==
  (targets \cap Pins) \cup UNION {Touched(design, n) : n \in Reach(design, targets)}
=============================================================================
