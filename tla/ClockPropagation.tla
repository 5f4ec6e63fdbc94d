-------------------------- MODULE ClockPropagation --------------------------
(***************************************************************************)
(* engine._propagate_clock: the worklist that carries a clock from its     *)
(* target objects through nets and combinational cells and stops at        *)
(* sequential ones.  One action is one iteration of `while queue'.         *)
(*                                                                         *)
(* The code seeds a FIFO deque from a Python set and walks two more sets   *)
(* in its body, so the visiting order depends on string hashing.  Here any *)
(* queued net may be next, which includes every such order.  Each net is   *)
(* appended at most once (it enters reached_nets with it), so a set loses  *)
(* no duplicates.                                                          *)
(***************************************************************************)
EXTENDS ClockGraph

CONSTANTS
  Designs,     \* the structural indexes to start from
  TargetSets   \* the target collections to start from

ASSUME DesignsAssumption == Designs \subseteq DesignIndex

VARIABLES design, targets, reached_nets, reached_pins, queue

walk == <<design, targets, reached_nets, reached_pins, queue>>

Seeded ==
  /\ design \in Designs
  /\ targets \in TargetSets
  /\ reached_nets = TargetNets(design, targets)
  /\ reached_pins = targets \cap Pins
  /\ queue = reached_nets

(* Faulty variants of Visit: it takes output ports for pins, walks through *)
(* registers, does not queue what it finds, or queues it every time.       *)
VisitPorts(net) ==
  /\ net \in queue
  /\ reached_pins' = reached_pins \cup design.loads[net] \cup Outputs(design, net)
  /\ reached_nets' = reached_nets \cup Successors(design, net)
  /\ queue' = (queue \ {net}) \cup (Successors(design, net) \ reached_nets)
  /\ UNCHANGED <<design, targets>>

VisitThroughRegisters(net) ==
  LET cells == {design.instanceOf[p] : p \in LoadPins(design, net)}
      nets  == NetsOfPins(design, {p \in Pins : design.instanceOf[p] \in cells})
  IN  /\ net \in queue
      /\ reached_pins' = reached_pins \cup Touched(design, net)
      /\ reached_nets' = reached_nets \cup nets
      /\ queue' = (queue \ {net}) \cup (nets \ reached_nets)
      /\ UNCHANGED <<design, targets>>

VisitWithoutQueueing(net) ==
  /\ net \in queue
  /\ reached_pins' = reached_pins \cup Touched(design, net)
  /\ reached_nets' = reached_nets \cup Successors(design, net)
  /\ queue' = queue \ {net}
  /\ UNCHANGED <<design, targets>>

VisitRequeueing(net) ==
  /\ net \in queue
  /\ reached_pins' = reached_pins \cup Touched(design, net)
  /\ reached_nets' = reached_nets \cup Successors(design, net)
  /\ queue' = (queue \ {net}) \cup Successors(design, net)
  /\ UNCHANGED <<design, targets>>

Visit(net) ==
  /\ net \in queue
  /\ reached_pins' = reached_pins \cup Touched(design, net)
  /\ reached_nets' = reached_nets \cup Successors(design, net)
  /\ queue' = (queue \ {net}) \cup (Successors(design, net) \ reached_nets)
  /\ UNCHANGED <<design, targets>>

Iterate == \E net \in Nets : Visit(net)

(* The loop runs in the auditing thread, which nothing suspends.           *)
Propagation == Seeded /\ [][Iterate]_walk /\ WF_walk(Iterate)

-----------------------------------------------------------------------------
(* Every set the loop keeps holds design objects of its own kind: in       *)
(* particular a port name found in design.loads never becomes a reached    *)
(* pin, which later code would look up in design.pins.                     *)
TypeOK ==
  /\ design \in DesignIndex
  /\ reached_nets \subseteq Nets
  /\ reached_pins \subseteq Pins
  /\ queue \subseteq reached_nets

(* Nothing is reached without a structural reason: whatever the order of   *)
(* visits, every reached net lies in every closed set around the targets,  *)
(* so no clock leaks through a register or an undeclared arc.              *)
NoLeak == reached_nets \subseteq Reach(design, targets)

(* When the loop of _propagate_clock ends, its two results are exactly the *)
(* least fixpoint, so they do not depend on the order in which hashing     *)
(* made it visit the nets, and no reachable pin has been missed.           *)
ResultIsReach ==
  queue = {} =>
    /\ reached_nets = Reach(design, targets)
    /\ reached_pins = ReachPins(design, targets)

(* A net that has been visited is never queued again, even on a            *)
(* combinational loop: this is why the traversal ends.                     *)
VisitedOnce ==
  [][ (reached_nets \ queue) \subseteq (reached_nets' \ queue') ]_walk

(* The traversal ends on every design, combinational loops included.       *)
Terminates == <>(queue = {})
=============================================================================
