----------------------------- MODULE ClockProofs -----------------------------
(***************************************************************************)
(* The clocks of a mode, on any design: what _propagate_clock returns, and *)
(* that the clocks are built and audited as the rest of the engine takes   *)
(* for granted.                                                            *)
(*                                                                         *)
(* Propagation.  Its results are the least fixpoint of the structural      *)
(* successor relation.  The argument is the usual one for a worklist.      *)
(* Soundness: every closed set around the targets contains reached_nets,   *)
(* since a visit adds only successors of a reached net.  Completeness: the *)
(* visited nets (reached and not queued) already have their successors in  *)
(* reached_nets and their pins in reached_pins, so an empty queue makes    *)
(* reached_nets itself closed.                                             *)
(*                                                                         *)
(* Definitions, for any commands and any number of them: no accepted one   *)
(* is lost, no ring of masters is valid, and without redefinitions what is *)
(* derived while building is what the audit accepts and what is true at    *)
(* the end.  They take what a clock reaches from ReachedObjects, which is  *)
(* the result of a propagation (AuditUsesPropagation).                     *)
(***************************************************************************)
EXTENDS ClockPropagation, ClockDefinitions, FiniteSetTheorems, WellFoundedInduction, TLAPS

(* The targets a command can resolve to do not matter to the proof.        *)
LEMMA TargetNetsInNets ==
  ASSUME NEW d \in DesignIndex, NEW T
  PROVE  TargetNets(d, T) \subseteq Nets
  BY DEF TargetNets, NetsOfPins, DesignIndex

LEMMA TouchedInPins ==
  ASSUME NEW d \in DesignIndex, NEW n \in Nets
  PROVE  Touched(d, n) \subseteq Pins
  BY DEF Touched, LoadPins, Outputs, DesignIndex

LEMMA SuccessorsInNets ==
  ASSUME NEW d \in DesignIndex, NEW n \in Nets
  PROVE  Successors(d, n) \subseteq Nets
<1>1. Outputs(d, n) \subseteq Pins
  BY DEF LoadPins, Outputs, DesignIndex
<1>2. QED
  BY <1>1 DEF Successors, NetsOfPins, DesignIndex

(* Reach is itself closed and holds the targets: it is the least such set. *)
LEMMA ReachIsLeastClosed ==
  ASSUME NEW d \in DesignIndex, NEW T
  PROVE  /\ Reach(d, T) \subseteq Nets
         /\ TargetNets(d, T) \subseteq Reach(d, T)
         /\ Closed(d, Reach(d, T))
         /\ \A S \in ClosedAround(d, T) : Reach(d, T) \subseteq S
<1>1. Reach(d, T) \subseteq Nets
  BY DEF Reach
<1>2. TargetNets(d, T) \subseteq Reach(d, T)
  BY TargetNetsInNets DEF Reach, ClosedAround
<1>3. \A S \in ClosedAround(d, T) : Reach(d, T) \subseteq S
  BY DEF Reach
<1>4. ASSUME NEW n \in Reach(d, T), NEW m \in Successors(d, n)
      PROVE  m \in Reach(d, T)
  <2>1. m \in Nets
    BY <1>1, SuccessorsInNets
  <2>2. ASSUME NEW S \in ClosedAround(d, T)
        PROVE  m \in S
    BY <1>3, <1>4 DEF ClosedAround, Closed
  <2>3. QED
    BY <2>1, <2>2 DEF Reach
<1>5. QED
  BY <1>1, <1>2, <1>3, <1>4 DEF Closed

-----------------------------------------------------------------------------
(* Every behaviour of the traversal keeps its sets within the design.      *)
THEOREM PropagationTypeCorrect == Propagation => []TypeOK
<1>1. Seeded => TypeOK
  <2> SUFFICES ASSUME Seeded PROVE TypeOK
    OBVIOUS
  <2>1. design \in DesignIndex
    BY DesignsAssumption DEF Seeded
  <2>2. QED
    BY <2>1, TargetNetsInNets DEF Seeded, TypeOK
<1>2. TypeOK /\ [Iterate]_walk => TypeOK'
  <2> SUFFICES ASSUME TypeOK, [Iterate]_walk PROVE TypeOK'
    OBVIOUS
  <2>1. ASSUME NEW net \in Nets, Visit(net) PROVE TypeOK'
    <3>1. Touched(design, net) \subseteq Pins
      BY TouchedInPins DEF TypeOK
    <3>2. Successors(design, net) \subseteq Nets
      BY SuccessorsInNets DEF TypeOK
    <3>3. QED
      BY <2>1, <3>1, <3>2 DEF TypeOK, Visit
  <2>2. CASE UNCHANGED walk
    BY <2>2 DEF TypeOK, walk
  <2>3. QED
    BY <2>1, <2>2 DEF Iterate
<1>3. QED
  BY <1>1, <1>2, PTL DEF Propagation

-----------------------------------------------------------------------------
(* The inductive invariant: NoLeak, and for every visited net the two sets *)
(* already hold what visiting it yields.                                   *)
VisitedNets == reached_nets \ queue

PinsAccounted ==
  reached_pins = (targets \cap Pins) \cup UNION {Touched(design, n) : n \in VisitedNets}

WorklistInv ==
  /\ TypeOK
  /\ NoLeak
  /\ TargetNets(design, targets) \subseteq reached_nets
  /\ \A n \in VisitedNets : Successors(design, n) \subseteq reached_nets
  /\ PinsAccounted

LEMMA WorklistInit == Seeded => WorklistInv
<1> SUFFICES ASSUME Seeded PROVE WorklistInv
  OBVIOUS
<1>1. design \in DesignIndex
  BY DesignsAssumption DEF Seeded
<1>2. TypeOK
  BY <1>1, TargetNetsInNets DEF Seeded, TypeOK
<1>3. NoLeak
  BY <1>1, ReachIsLeastClosed DEF Seeded, NoLeak
<1>4. VisitedNets = {}
  BY DEF Seeded, VisitedNets
<1>5. QED
  BY <1>2, <1>3, <1>4 DEF Seeded, WorklistInv, PinsAccounted

LEMMA WorklistStep == WorklistInv /\ [Iterate]_walk => WorklistInv'
<1> SUFFICES ASSUME WorklistInv, [Iterate]_walk PROVE WorklistInv'
  OBVIOUS
<1>1. ASSUME NEW net \in Nets, Visit(net) PROVE WorklistInv'
  <2>1. /\ design' = design /\ targets' = targets
        /\ net \in reached_nets
        /\ reached_pins' = reached_pins \cup Touched(design, net)
        /\ reached_nets' = reached_nets \cup Successors(design, net)
        /\ queue' = (queue \ {net}) \cup (Successors(design, net) \ reached_nets)
    BY <1>1 DEF Visit, WorklistInv, TypeOK
  <2>2. /\ Touched(design, net) \subseteq Pins
        /\ Successors(design, net) \subseteq Nets
    BY TouchedInPins, SuccessorsInNets DEF WorklistInv, TypeOK
  <2>3. TypeOK'
    BY <2>1, <2>2 DEF WorklistInv, TypeOK
  <2>4. NoLeak'
    <3>1. Closed(design, Reach(design, targets))
      BY ReachIsLeastClosed DEF WorklistInv, TypeOK
    <3>2. net \in Reach(design, targets)
      BY <2>1 DEF WorklistInv, NoLeak
    <3>3. Successors(design, net) \subseteq Reach(design, targets)
      BY <3>1, <3>2 DEF Closed
    <3>4. QED
      BY <2>1, <3>3 DEF WorklistInv, NoLeak
  <2>5. VisitedNets' = VisitedNets \cup {net}
    BY <2>1, <1>1 DEF VisitedNets, Visit, WorklistInv, TypeOK
  <2>6. (\A n \in VisitedNets : Successors(design, n) \subseteq reached_nets)'
    BY <2>1, <2>5 DEF WorklistInv
  <2>7. PinsAccounted'
    BY <2>1, <2>5 DEF WorklistInv, PinsAccounted
  <2>8. QED
    BY <2>1, <2>3, <2>4, <2>6, <2>7 DEF WorklistInv
<1>2. CASE UNCHANGED walk
  BY <1>2 DEF walk, WorklistInv, TypeOK, NoLeak, PinsAccounted, VisitedNets
<1>3. QED
  BY <1>1, <1>2 DEF Iterate

LEMMA WorklistResult == WorklistInv => ResultIsReach
<1> SUFFICES ASSUME WorklistInv, queue = {} PROVE
      /\ reached_nets = Reach(design, targets)
      /\ reached_pins = ReachPins(design, targets)
  BY DEF ResultIsReach
<1>1. VisitedNets = reached_nets
  BY DEF VisitedNets
<1>2. reached_nets \in ClosedAround(design, targets)
  BY <1>1 DEF WorklistInv, TypeOK, ClosedAround, Closed
<1>3. Reach(design, targets) \subseteq reached_nets
  BY <1>2, ReachIsLeastClosed DEF WorklistInv, TypeOK
<1>4. reached_nets = Reach(design, targets)
  BY <1>3 DEF WorklistInv, NoLeak
<1>5. QED
  BY <1>1, <1>4 DEF WorklistInv, PinsAccounted, ReachPins

(* No reached net is without a structural reason, on any design.           *)
THEOREM PropagationNeverLeaks == Propagation => []NoLeak
<1>1. WorklistInv => NoLeak
  BY DEF WorklistInv
<1>2. QED
  BY <1>1, WorklistInit, WorklistStep, PTL DEF Propagation

(* On any design and in any visiting order the loop can only end with the  *)
(* least fixpoint, so hashing never shows in a report.                     *)
THEOREM PropagationIsReach == Propagation => []ResultIsReach
  BY WorklistInit, WorklistStep, WorklistResult, PTL DEF Propagation

(* A visited net stays visited and out of the queue.                       *)
THEOREM EachNetVisitedOnce == Propagation => VisitedOnce
<1>1. WorklistInv /\ [Iterate]_walk =>
        [(reached_nets \ queue) \subseteq (reached_nets' \ queue')]_walk
  BY DEF Iterate, Visit, WorklistInv, TypeOK
<1>2. QED
  BY <1>1, WorklistInit, WorklistStep, PTL DEF Propagation, VisitedOnce

-----------------------------------------------------------------------------
(* Propagating a merged target set is merging the propagations.  This is   *)
(* what lets `create_clock -add' extend a clock's targets in place instead *)
(* of keeping one record per command.                                      *)
LEMMA TargetNetsOfUnion ==
  ASSUME NEW d, NEW T, NEW U
  PROVE  TargetNets(d, T \cup U) = TargetNets(d, T) \cup TargetNets(d, U)
  BY DEF TargetNets, NetsOfPins

THEOREM ReachOfUnion ==
  ASSUME NEW d \in DesignIndex, NEW T, NEW U
  PROVE  Reach(d, T \cup U) = Reach(d, T) \cup Reach(d, U)
<1>1. Reach(d, T) \cup Reach(d, U) \in ClosedAround(d, T \cup U)
  BY ReachIsLeastClosed, TargetNetsOfUnion DEF ClosedAround, Closed
<1>2. Reach(d, T \cup U) \subseteq Reach(d, T) \cup Reach(d, U)
  BY <1>1, ReachIsLeastClosed
<1>3. Reach(d, T \cup U) \in ClosedAround(d, T) \cap ClosedAround(d, U)
  BY ReachIsLeastClosed, TargetNetsOfUnion DEF ClosedAround
<1>4. QED
  BY <1>2, <1>3, ReachIsLeastClosed
-----------------------------------------------------------------------------
(* What the audit takes a clock to reach is what the propagation from its  *)
(* targets ends with, in whatever order it visits the nets.                *)
THEOREM AuditUsesPropagation ==
  Propagation =>
    [](design = Design /\ queue = {} =>
         targets \cup reached_nets \cup reached_pins = ReachedObjects(targets))
<1>1. WorklistInv =>
        (design = Design /\ queue = {} =>
           targets \cup reached_nets \cup reached_pins = ReachedObjects(targets))
  BY WorklistResult DEF ResultIsReach, ReachedObjects
<1>2. QED
  BY <1>1, WorklistInit, WorklistStep, PTL DEF Propagation

-----------------------------------------------------------------------------
(* The clocks as they are built and audited.                               *)
ClockObject ==
  [ name : Names, targets : SUBSET Points, period : Int \cup {NoPeriod}, generated : BOOLEAN,
    source : SUBSET Points, master : Names \cup {NoName}, divide : Nat \ {0} ]

(* The dict and its order, the list of clocks, and the histories of them.  *)
Shape ==
  /\ objects \in Seq(ClockObject)
  /\ \A n \in Defined : clocks[n] \in DOMAIN objects /\ ClockOf(n).name = n
  /\ \A a \in accepted : a.at \in DOMAIN objects /\ a.clock.name \in Defined
  /\ \A d \in duplicate_clocks : d[2] \in DOMAIN objects
  /\ order \in Seq(Names)
  /\ \A i, j \in DOMAIN order : order[i] = order[j] => i = j
  /\ Defined = {order[i] : i \in DOMAIN order}

Before(m, n) == \E i, j \in DOMAIN order : i < j /\ m = order[i] /\ n = order[j]

(* A derived period rests on a clock that reaches the source.              *)
RestsOn(n, m) ==
  /\ ClockOf(n).source \cap ReachedObjects(ClockOf(m).targets) # {}
  /\ ClockOf(m).period \in Int /\ ClockOf(m).period > 0
  /\ ClockOf(n).period = ClockOf(m).period * ClockOf(n).divide

HasDerivedPeriod(n) == ClockOf(n).generated /\ ClockOf(n).period # NoPeriod

(* Pairs kept for OC2003: a later clock took the name m, or this one n.    *)
RedefinedAfter(m, at) == \E d \in duplicate_clocks : d[2] > at /\ objects[d[2]].name = m

Redefines(n) == \E d \in duplicate_clocks : d[2] = clocks[n]

(* What was derived stays so until the master is redefined, and its place  *)
(* in the order is after the master's unless the clock redefines another.  *)
Derived ==
  \A n \in Defined : HasDerivedPeriod(n) =>
    LET m == ClockOf(n).master
    IN  /\ m \in Defined /\ m # n
        /\ RestsOn(n, m) \/ RedefinedAfter(m, clocks[n])
        /\ Before(m, n) \/ Redefines(n)

Disturbed(n) == Redefines(n) \/ RedefinedAfter(ClockOf(n).master, clocks[n])

(* The audit has done the first clocks of the order.                       *)
Visited == Cardinality(DOMAIN clock_reach)

Progress ==
  /\ IsFiniteSet(DOMAIN clock_reach) /\ Visited \in 0..Len(order)
  /\ DOMAIN clock_reach = {order[i] : i \in 1..Visited}
  /\ pass \in {"primary", "generated"} => Visited = 0
  /\ pass \in {"report", "done"} => Visited = Len(order)

Judged ==
  /\ valid_clocks \subseteq DOMAIN clock_reach
  /\ \A n \in DOMAIN clock_reach : clock_reach[n] = ReachedObjects(ClockOf(n).targets)
  /\ \A n \in valid_clocks :
       /\ ClockOf(n).period # NoPeriod
       /\ ClockOf(n).generated /\ ClockOf(n).master # NoName => Before(ClockOf(n).master, n)
  /\ \A n \in DOMAIN clock_reach \ invalid_clocks :
       HasDerivedPeriod(n) => n \in valid_clocks \/ Disturbed(n)

(* In the end OC2003 names every redefinition.                             *)
Told ==
  pass = "done" =>
    \A d \in duplicate_clocks : \E f \in findings :
      f[1] \in {"OC2003 warning", "OC2003 error"} /\ f[2] = d[2]

Inv == Shape /\ NoSilentLoss /\ Derived /\ Progress /\ Judged /\ Told
-----------------------------------------------------------------------------
(* A set of naturals has a least element; this is what takes the place of  *)
(* induction over the ranks of names and over positions of the audit.      *)
LEMMA LeastNatural ==
  ASSUME NEW T \in SUBSET Nat, T # {}
  PROVE  \E x \in T : \A y \in T : x <= y
<1> DEFINE R == OpToRel(<, Nat)
<1>1. IsWellFoundedOn(R, Nat)
  BY NatLessThanWellFounded
<1>2. \A x, y \in Nat : <<y, x>> \in R <=> y < x
  BY DEF OpToRel
<1> HIDE DEF R
<1>3. PICK x \in T : \A y \in T : ~(<<y, x>> \in R)
  BY <1>1, WFMin
<1>4. ASSUME NEW y \in T PROVE x <= y
  <2>1. x \in Nat /\ y \in Nat /\ ~(y < x)
    BY <1>2, <1>3
  <2> QED
    BY <2>1
<1> QED
  BY <1>3, <1>4

LEMMA NameOfCommand ==
  ASSUME NEW cmd \in PrimaryCommands \cup GeneratedCommands
  PROVE  ClockName(cmd) \in Names /\ cmd.targets \subseteq Points
<1>1. /\ cmd.name \in ClockNames \cup {NoName} /\ cmd.targets \subseteq Points
      /\ cmd.name = NoName => cmd.targets # {}
      /\ PointRank \in [Points -> Nat]
  BY ClockConstants
<1>2. CASE cmd.name # NoName
  BY <1>1, <1>2 DEF ClockName, Names
<1>3. CASE cmd.name = NoName
  <2> DEFINE ranks == {PointRank[t] : t \in cmd.targets}
  <2>1. ranks \in SUBSET Nat /\ ranks # {}
    BY <1>1, <1>3
  <2>2. PICK r \in ranks : \A q \in ranks : r <= q
    <3> HIDE DEF ranks
    <3> QED
      BY <2>1, LeastNatural
  <2>3. \E t \in cmd.targets : \A u \in cmd.targets : PointRank[t] <= PointRank[u]
    BY <2>2
  <2>4. ClockName(cmd) \in cmd.targets
    BY <1>3, <2>3 DEF ClockName
  <2> QED
    BY <1>1, <2>4 DEF Names
<1> QED
  BY <1>2, <1>3

(* Only the targets of a clock object ever change, and they only grow.     *)
LEMMA MoreTargets ==
  ASSUME NEW o \in ClockObject, NEW extra \in SUBSET Points
  PROVE  LET p == [o EXCEPT !.targets = o.targets \cup extra] IN
         /\ p \in ClockObject /\ p.targets = o.targets \cup extra /\ p.name = o.name
         /\ SameDefinition(p, o)
BY DEF ClockObject, SameDefinition

(* What recording a definition does to the list of the clock objects.      *)
LEMMA RecordObjects ==
  ASSUME Shape, NEW clock \in ClockObject, NEW add \in BOOLEAN, NEW invalid \in BOOLEAN,
         Record(clock.name, clock, add, invalid)
  PROVE  LET this == Len(objects) + 1 IN
         /\ objects' \in Seq(ClockObject)
         /\ DOMAIN objects' = DOMAIN objects \cup {this} /\ objects'[this] = clock
         /\ this \in Nat /\ \A i \in DOMAIN objects : i \in Nat /\ i < this
         /\ \A i \in DOMAIN objects :
              /\ objects'[i].name = objects[i].name /\ SameDefinition(objects'[i], objects[i])
              /\ objects[i].targets \subseteq objects'[i].targets
<1> DEFINE this == Len(objects) + 1
           built == Append(objects, clock)
           name == clock.name
<1>1. /\ built \in Seq(ClockObject) /\ DOMAIN built = DOMAIN objects \cup {this}
      /\ built[this] = clock /\ \A i \in DOMAIN objects : built[i] = objects[i]
  BY DEF Shape
<1>2. this \in Nat /\ \A i \in DOMAIN objects : i \in Nat /\ i < this
  BY DEF Shape
<1>3. CASE objects' = built
  BY <1>1, <1>2, <1>3 DEF SameDefinition
<1>4. CASE /\ name \in Defined
           /\ objects' = [built EXCEPT ![clocks[name]].targets = TargetsMerged(@, clock.targets)]
  <2> DEFINE at == clocks[name]
             merged == [objects[at] EXCEPT !.targets = objects[at].targets \cup clock.targets]
  <2>1. at \in DOMAIN objects /\ at # this /\ objects[at] \in ClockObject
    BY <1>2, <1>4 DEF Shape
  <2>2. clock.targets \in SUBSET Points
    BY DEF ClockObject
  <2>3. /\ merged \in ClockObject /\ merged.targets = objects[at].targets \cup clock.targets
        /\ merged.name = objects[at].name /\ SameDefinition(merged, objects[at])
    BY <2>1, <2>2, MoreTargets
  <2>4. objects' = [built EXCEPT ![at] = merged]
    BY <1>1, <1>4, <2>1 DEF TargetsMerged
  <2> HIDE DEF at, merged
  <2>5. /\ objects' \in Seq(ClockObject) /\ DOMAIN objects' = DOMAIN built
        /\ objects'[at] = merged /\ \A i \in DOMAIN built : i # at => objects'[i] = built[i]
    <3> HIDE DEF built
    <3> QED
      BY <1>1, <2>1, <2>3, <2>4
  <2>6. objects'[this] = clock
    BY <1>1, <2>1, <2>5
  <2>7. ASSUME NEW i \in DOMAIN objects
        PROVE  /\ objects'[i].name = objects[i].name /\ SameDefinition(objects'[i], objects[i])
               /\ objects[i].targets \subseteq objects'[i].targets
    <3>1. CASE i = at
      BY <2>3, <2>5, <3>1
    <3>2. CASE i # at
      <4>1. objects'[i] = objects[i]
        BY <1>1, <2>5, <3>2
      <4> QED
        BY <4>1 DEF SameDefinition
    <3> QED
      BY <3>1, <3>2
  <2> QED
    BY <1>1, <1>2, <2>5, <2>6, <2>7
<1> QED
  BY <1>3, <1>4 DEF Record

(* Recording keeps the dict and its order in step.  At most one name comes *)
(* to stand for another clock, and that is kept if it stood for one.       *)
LEMMA RecordShape ==
  ASSUME Shape, NEW clock \in ClockObject, NEW add \in BOOLEAN, NEW invalid \in BOOLEAN,
         Record(clock.name, clock, add, invalid)
  PROVE  /\ Shape' /\ duplicate_clocks \subseteq duplicate_clocks'
         /\ order' = OrderWith(clock.name)
         /\ \/ clocks' = clocks /\ clock.name \in Defined
            \/ /\ Defined' = Defined \cup {clock.name} /\ clocks'[clock.name] = Len(objects) + 1
               /\ \A n \in Defined : n # clock.name => clocks'[n] = clocks[n]
               /\ clock.name \in Defined =>
                    <<clocks[clock.name], Len(objects) + 1>> \in duplicate_clocks'
<1> DEFINE this == Len(objects) + 1
           name == clock.name
           merge == name \in Defined /\ add /\ SameDefinition(ClockOf(name), clock)
<1>1. /\ objects' \in Seq(ClockObject)
      /\ DOMAIN objects' = DOMAIN objects \cup {this} /\ objects'[this] = clock
      /\ this \in Nat /\ \A i \in DOMAIN objects : i \in Nat /\ i < this
      /\ \A i \in DOMAIN objects : objects'[i].name = objects[i].name
  BY RecordObjects
<1>2. name \in Names
  BY DEF ClockObject
<1>3. accepted' = accepted \cup IF invalid THEN {} ELSE {[at |-> this, clock |-> clock]}
  BY DEF Record
<1>4. CASE merge
  <2>1. UNCHANGED <<clocks, order, duplicate_clocks>>
    BY <1>4 DEF Record
  <2>2. \A n \in Defined : clocks'[n] \in DOMAIN objects' /\ ClockOf(n)'.name = n
    BY <1>1, <2>1 DEF Shape, ClockOf
  <2>3. \A a \in accepted' : a.at \in DOMAIN objects' /\ a.clock.name \in Defined'
    <3>1. ASSUME NEW a \in accepted PROVE a.at \in DOMAIN objects' /\ a.clock.name \in Defined'
      BY <1>1, <2>1 DEF Shape, Defined
    <3>2. ASSUME NEW a, a = [at |-> this, clock |-> clock]
          PROVE  a.at \in DOMAIN objects' /\ a.clock.name \in Defined'
      BY <1>1, <1>4, <2>1, <3>2 DEF Defined
    <3> QED
      BY <1>3, <3>1, <3>2
  <2>4. Defined' = Defined
    BY <2>1 DEF Defined
  <2>5. Shape'
    BY <1>1, <2>1, <2>2, <2>3, <2>4 DEF Shape
  <2> QED
    BY <1>4, <2>1, <2>5 DEF OrderWith
<1>5. CASE ~merge
  <2>1. /\ order' = OrderWith(name)
        /\ clocks' = [n \in Defined \cup {name} |-> IF n = name THEN this ELSE clocks[n]]
        /\ duplicate_clocks' =
             duplicate_clocks \cup IF name \in Defined THEN {<<clocks[name], this>>} ELSE {}
    BY <1>5 DEF Record, Redefinition
  <2>2. /\ Defined' = Defined \cup {name} /\ clocks'[name] = this
        /\ \A n \in Defined : n # name => clocks'[n] = clocks[n]
    BY <2>1 DEF Defined
  <2>3. ASSUME NEW n \in Defined' PROVE clocks'[n] \in DOMAIN objects' /\ ClockOf(n)'.name = n
    <3>1. CASE n = name
      BY <1>1, <2>2, <3>1 DEF ClockOf
    <3>2. CASE n # name
      <4>1. n \in Defined /\ clocks'[n] = clocks[n]
        BY <2>2, <3>2
      <4>2. clocks[n] \in DOMAIN objects /\ objects[clocks[n]].name = n
        BY <4>1 DEF Shape, ClockOf
      <4> HIDE DEF name, this
      <4> QED
        BY <1>1, <4>1, <4>2 DEF ClockOf
    <3> QED
      BY <3>1, <3>2
  <2>4. \A a \in accepted' : a.at \in DOMAIN objects' /\ a.clock.name \in Defined'
    <3>1. ASSUME NEW a \in accepted PROVE a.at \in DOMAIN objects' /\ a.clock.name \in Defined'
      BY <1>1, <2>2 DEF Shape
    <3>2. ASSUME NEW a, a = [at |-> this, clock |-> clock]
          PROVE  a.at \in DOMAIN objects' /\ a.clock.name \in Defined'
      BY <1>1, <2>2, <3>2
    <3> QED
      BY <1>3, <3>1, <3>2
  <2>5. \A d \in duplicate_clocks' : d[2] \in DOMAIN objects'
    BY <1>1, <2>1 DEF Shape
  <2>6. /\ order' \in Seq(Names)
        /\ \A i, j \in DOMAIN order' : order'[i] = order'[j] => i = j
        /\ Defined' = {order'[i] : i \in DOMAIN order'}
    <3> HIDE DEF name
    <3>1. CASE name \in Defined
      <4>1. order' = order /\ Defined' = Defined
        BY <2>1, <2>2, <3>1 DEF OrderWith
      <4> QED
        BY <4>1 DEF Shape
    <3>2. CASE name \notin Defined
      <4>1. order' = Append(order, name) /\ order \in Seq(Names)
        BY <2>1, <3>2 DEF OrderWith, Shape
      <4>2. /\ order' \in Seq(Names) /\ DOMAIN order' = DOMAIN order \cup {Len(order) + 1}
            /\ order'[Len(order) + 1] = name /\ \A i \in DOMAIN order : order'[i] = order[i]
        BY <1>2, <4>1
      <4>3. Len(order) + 1 \notin DOMAIN order
        BY <4>1
      <4>4. /\ \A i \in DOMAIN order : order[i] # name
            /\ \A i, j \in DOMAIN order : order[i] = order[j] => i = j
            /\ Defined = {order[i] : i \in DOMAIN order}
        BY <3>2 DEF Shape
      <4>5. \A i, j \in DOMAIN order' : order'[i] = order'[j] => i = j
        BY <4>2, <4>3, <4>4
      <4>6. Defined' = {order'[i] : i \in DOMAIN order'}
        BY <2>2, <4>2, <4>4
      <4> QED
        BY <4>2, <4>5, <4>6
    <3> QED
      BY <3>1, <3>2
  <2>7. Shape'
    BY <1>1, <2>3, <2>4, <2>5, <2>6 DEF Shape
  <2> QED
    BY <2>1, <2>2, <2>7
<1> QED
  BY <1>4, <1>5

(* No definition is lost: an accepted one is merged, stored, or replaced   *)
(* by a later one that is paired with it.                                  *)
LEMMA RecordKeepsTrack ==
  ASSUME Shape, NoSilentLoss, NEW clock \in ClockObject,
         NEW add \in BOOLEAN, NEW invalid \in BOOLEAN,
         Record(clock.name, clock, add, invalid)
  PROVE  NoSilentLoss'
<1> DEFINE this == Len(objects) + 1
           name == clock.name
           Covers(now, c) == c.targets \subseteq now.targets /\ SameDefinition(c, now)
           Replaced(a) == \E d \in duplicate_clocks : d[2] > a.at /\ objects[d[2]].name = a.clock.name
           Replaced1(a) ==
             \E d \in duplicate_clocks' : d[2] > a.at /\ objects'[d[2]].name = a.clock.name
<1>1. \A c, now : (\A field \in {"period", "generated", "source", "master", "divide"} :
                     c[field] = now[field]) <=> SameDefinition(c, now)
  BY DEF SameDefinition
<1>2. \A a \in accepted : Covers(ClockOf(a.clock.name), a.clock) \/ Replaced(a)
  BY <1>1 DEF NoSilentLoss
<1>3. SUFFICES ASSUME NEW a \in accepted'
               PROVE  Covers(ClockOf(a.clock.name)', a.clock) \/ Replaced1(a)
  BY <1>1 DEF NoSilentLoss
<1>4. /\ DOMAIN objects' = DOMAIN objects \cup {this} /\ objects'[this] = clock
      /\ this \in Nat /\ \A i \in DOMAIN objects : i \in Nat /\ i < this
      /\ \A i \in DOMAIN objects :
           /\ objects'[i].name = objects[i].name /\ SameDefinition(objects'[i], objects[i])
           /\ objects[i].targets \subseteq objects'[i].targets
  BY RecordObjects
<1>5. CASE a \in accepted
  <2>1. a.at \in DOMAIN objects /\ a.clock.name \in Defined /\ this > a.at
    BY <1>4, <1>5 DEF Shape
  <2>2. ASSUME Replaced(a) PROVE Replaced1(a)
    <3>1. PICK d \in duplicate_clocks : d[2] > a.at /\ objects[d[2]].name = a.clock.name
      BY <2>2
    <3>2. d \in duplicate_clocks'
      BY DEF Record
    <3>3. objects'[d[2]].name = a.clock.name
      BY <1>4, <3>1 DEF Shape
    <3> QED
      BY <3>1, <3>2, <3>3
  <2>3. ASSUME Covers(ClockOf(a.clock.name), a.clock), clocks'[a.clock.name] = clocks[a.clock.name]
        PROVE  Covers(ClockOf(a.clock.name)', a.clock)
    <3> DEFINE i == clocks[a.clock.name]
    <3>1. /\ i \in DOMAIN objects /\ a.clock.targets \subseteq objects[i].targets
          /\ SameDefinition(a.clock, objects[i])
      BY <2>1, <2>3 DEF Shape, ClockOf
    <3>2. /\ SameDefinition(objects'[i], objects[i]) /\ objects[i].targets \subseteq objects'[i].targets
      BY <1>4, <3>1
    <3>3. a.clock.targets \subseteq objects'[i].targets /\ SameDefinition(a.clock, objects'[i])
      BY <3>1, <3>2 DEF SameDefinition
    <3> QED
      BY <2>3, <3>3 DEF ClockOf
  <2>4. clocks'[a.clock.name] = clocks[a.clock.name] \/ Replaced1(a)
    <3>1. CASE a.clock.name = name /\ ~(add /\ SameDefinition(ClockOf(name), clock))
      <4>1. <<clocks[name], this>> \in duplicate_clocks'
        BY <2>1, <3>1 DEF Record, Redefinition
      <4>2. objects'[this].name = a.clock.name
        BY <1>4, <3>1
      <4> QED
        BY <2>1, <4>1, <4>2
    <3>2. CASE a.clock.name = name /\ add /\ SameDefinition(ClockOf(name), clock)
      BY <2>1, <3>2 DEF Record
    <3>3. CASE a.clock.name # name
      BY <2>1, <3>3 DEF Record, Defined
    <3> QED
      BY <3>1, <3>2, <3>3
  <2> HIDE DEF Covers, Replaced, Replaced1
  <2> QED
    BY <1>2, <1>5, <2>2, <2>3, <2>4
<1>6. CASE a = [at |-> this, clock |-> clock] /\ ~invalid
  <2>1. a.clock = clock
    BY <1>6
  <2>2. CASE name \in Defined /\ add /\ SameDefinition(ClockOf(name), clock)
    <3> DEFINE i == clocks[name]
               now == [objects[i] EXCEPT !.targets = objects[i].targets \cup clock.targets]
    <3>1. i \in DOMAIN objects /\ objects[i] \in ClockObject /\ clocks'[name] = i
      BY <1>6, <2>2 DEF Shape, Record
    <3>2. objects' = [Append(objects, clock) EXCEPT ![i].targets = TargetsMerged(@, clock.targets)]
      BY <1>6, <2>2 DEF Record
    <3>3. /\ Append(objects, clock)[i] = objects[i] /\ i \in DOMAIN Append(objects, clock)
      BY <3>1 DEF Shape
    <3>4. objects'[i] = now
      BY <3>2, <3>3 DEF TargetsMerged
    <3>5. clock.targets \in SUBSET Points
      BY DEF ClockObject
    <3>6. now.targets = objects[i].targets \cup clock.targets /\ SameDefinition(now, objects[i])
      BY <3>1, <3>5, MoreTargets
    <3>7. SameDefinition(clock, now)
      BY <2>2, <3>6 DEF SameDefinition, ClockOf
    <3> QED
      BY <2>1, <3>1, <3>4, <3>6, <3>7 DEF ClockOf
  <2>3. CASE ~(name \in Defined /\ add /\ SameDefinition(ClockOf(name), clock))
    <3>1. clocks'[name] = this
      BY <2>3 DEF Record
    <3> QED
      BY <1>4, <2>1, <3>1 DEF ClockOf, SameDefinition
  <2> QED
    BY <2>2, <2>3
<1> QED
  BY <1>5, <1>6 DEF Record

-----------------------------------------------------------------------------
(* A clock with more targets reaches more.                                 *)
LEMMA ReachGrows ==
  ASSUME NEW few, NEW many, few \subseteq many
  PROVE  ReachedObjects(few) \subseteq ReachedObjects(many)
<1>1. TargetNets(Design, few) \subseteq TargetNets(Design, many)
  BY DEF TargetNets, NetsOfPins
<1>2. ClosedAround(Design, many) \subseteq ClosedAround(Design, few)
  BY <1>1 DEF ClosedAround
<1>3. Reach(Design, few) \subseteq Reach(Design, many)
  BY <1>2 DEF Reach
<1>4. ReachPins(Design, few) \subseteq ReachPins(Design, many)
  BY <1>3 DEF ReachPins
<1> QED
  BY <1>3, <1>4 DEF ReachedObjects

(* What a definition with a derived period must rest on when recorded.     *)
Supported(clock) ==
  clock.generated /\ clock.period # NoPeriod =>
    /\ clock.master \in Defined /\ clock.master # clock.name
    /\ clock.source \cap ReachedObjects(ClockOf(clock.master).targets) # {}
    /\ ClockOf(clock.master).period \in Int /\ ClockOf(clock.master).period > 0
    /\ clock.period = ClockOf(clock.master).period * clock.divide

LEMMA RecordKeepsDerived ==
  ASSUME Shape, Derived, NEW clock \in ClockObject, Supported(clock),
         NEW add \in BOOLEAN, NEW invalid \in BOOLEAN,
         Record(clock.name, clock, add, invalid)
  PROVE  Derived'
<1> DEFINE this == Len(objects) + 1
           name == clock.name
<1>1. /\ DOMAIN objects' = DOMAIN objects \cup {this} /\ objects'[this] = clock
      /\ this \in Nat /\ \A i \in DOMAIN objects : i \in Nat /\ i < this
      /\ \A i \in DOMAIN objects :
           /\ objects'[i].name = objects[i].name /\ SameDefinition(objects'[i], objects[i])
           /\ objects[i].targets \subseteq objects'[i].targets
  BY RecordObjects
<1>2. /\ duplicate_clocks \subseteq duplicate_clocks' /\ order' = OrderWith(name)
      /\ \/ clocks' = clocks /\ name \in Defined
         \/ /\ Defined' = Defined \cup {name} /\ clocks'[name] = this
            /\ \A n \in Defined : n # name => clocks'[n] = clocks[n]
            /\ name \in Defined => <<clocks[name], this>> \in duplicate_clocks'
  BY RecordShape
<1> HIDE DEF this, name
<1>3. \A n \in Defined : /\ n \in Defined' /\ clocks[n] \in DOMAIN objects
                         /\ clocks'[n] = clocks[n] \/ n = name
  BY <1>2 DEF Defined, Shape
(* A name that stands for the same object still has what it had.           *)
<1>4. ASSUME NEW m \in Defined, clocks'[m] = clocks[m]
      PROVE  /\ SameDefinition(ClockOf(m)', ClockOf(m))
             /\ ReachedObjects(ClockOf(m).targets) \subseteq ReachedObjects(ClockOf(m)'.targets)
  <2>1. /\ SameDefinition(ClockOf(m)', ClockOf(m))
        /\ ClockOf(m).targets \subseteq ClockOf(m)'.targets
    BY <1>1, <1>3, <1>4 DEF ClockOf
  <2> QED
    BY <2>1, ReachGrows
<1>5. /\ \A l, m : Before(l, m) => Before(l, m)'
      /\ \A m \in Defined : name \notin Defined => Before(m, name)'
  <2>1. CASE name \in Defined
    BY <1>2, <2>1 DEF Before, OrderWith
  <2>2. CASE name \notin Defined
    <3>1. /\ DOMAIN order \subseteq DOMAIN order' /\ Len(order) + 1 \in DOMAIN order'
          /\ order'[Len(order) + 1] = name /\ \A i \in DOMAIN order : order'[i] = order[i]
          /\ \A i \in DOMAIN order : i < Len(order) + 1
      <4>1. order' = Append(order, name) /\ order \in Seq(Names)
        BY <1>2, <2>2 DEF OrderWith, Shape
      <4> QED
        BY <4>1
    <3>2. Defined = {order[i] : i \in DOMAIN order}
      BY DEF Shape
    <3> QED
      BY <3>1, <3>2 DEF Before
  <2> QED
    BY <2>1, <2>2
<1>6. ASSUME NEW m, NEW at, RedefinedAfter(m, at) PROVE RedefinedAfter(m, at)'
  <2>1. PICK d \in duplicate_clocks : d[2] > at /\ objects[d[2]].name = m
    BY <1>6 DEF RedefinedAfter
  <2>2. d \in duplicate_clocks' /\ objects'[d[2]].name = m
    BY <1>1, <1>2, <2>1 DEF Shape
  <2> QED
    BY <2>1, <2>2 DEF RedefinedAfter
<1>7. SUFFICES ASSUME NEW n \in Defined', HasDerivedPeriod(n)', NEW m, m = ClockOf(n)'.master
               PROVE  /\ m \in Defined' /\ m # n
                      /\ RestsOn(n, m)' \/ RedefinedAfter(m, clocks[n])'
                      /\ Before(m, n)' \/ Redefines(n)'
  BY DEF Derived
<1>8. CASE n \in Defined /\ clocks'[n] = clocks[n]
  <2>1. PICK at : at = clocks[n]
    OBVIOUS
  <2>2. SameDefinition(ClockOf(n)', ClockOf(n))
    BY <1>4, <1>8
  <2>3. HasDerivedPeriod(n) /\ ClockOf(n).master = m
    BY <1>7, <2>2 DEF HasDerivedPeriod, SameDefinition
  <2>4. /\ m \in Defined /\ m # n
        /\ RestsOn(n, m) \/ RedefinedAfter(m, at)
        /\ Before(m, n) \/ Redefines(n)
    BY <1>8, <2>1, <2>3 DEF Derived
  <2>5. Before(m, n)' \/ Redefines(n)'
    BY <1>2, <1>5, <1>8, <2>4 DEF Redefines
  <2> DEFINE Later == \E d \in duplicate_clocks' : d[2] > at /\ objects'[d[2]].name = m
  <2>6. Later => RedefinedAfter(m, clocks[n])'
    BY <1>8, <2>1 DEF RedefinedAfter
  <2>7. CASE RedefinedAfter(m, at)
    <3>1. Later
      BY <1>6, <2>7 DEF RedefinedAfter
    <3> HIDE DEF Later
    <3> QED
      BY <1>3, <2>4, <2>5, <2>6, <3>1
  <2>8. CASE RestsOn(n, m) /\ clocks'[m] = clocks[m]
    <3>1. /\ SameDefinition(ClockOf(m)', ClockOf(m))
          /\ ReachedObjects(ClockOf(m).targets) \subseteq ReachedObjects(ClockOf(m)'.targets)
      BY <1>4, <2>4, <2>8
    <3>2. RestsOn(n, m)'
      BY <2>2, <2>8, <3>1 DEF RestsOn, SameDefinition
    <3> QED
      BY <1>3, <2>4, <2>5, <3>2
  <2>9. CASE clocks'[m] # clocks[m]
    <3>1. m = name /\ <<clocks[m], this>> \in duplicate_clocks'
      BY <1>2, <1>3, <2>4, <2>9
    <3>2. this > at /\ objects'[this].name = m
      BY <1>1, <1>3, <1>8, <2>1, <3>1 DEF name
    <3>3. Later
      BY <3>1, <3>2
    <3> HIDE DEF Later
    <3> QED
      BY <1>3, <2>4, <2>5, <2>6, <3>3
  <2> QED
    BY <2>4, <2>7, <2>8, <2>9
<1>9. CASE ~(n \in Defined /\ clocks'[n] = clocks[n])
  <2>1. n = name /\ clocks'[n] = this /\ (n \in Defined => <<clocks[n], this>> \in duplicate_clocks')
    BY <1>2, <1>7, <1>9 DEF Defined
  <2>2. ClockOf(n)' = clock
    BY <1>1, <2>1 DEF ClockOf
  <2>3. /\ m \in Defined /\ m # n
        /\ clock.source \cap ReachedObjects(ClockOf(m).targets) # {}
        /\ ClockOf(m).period \in Int /\ ClockOf(m).period > 0
        /\ clock.period = ClockOf(m).period * clock.divide
    BY <1>7, <2>1, <2>2 DEF Supported, HasDerivedPeriod, name
  <2>4. /\ SameDefinition(ClockOf(m)', ClockOf(m))
        /\ ReachedObjects(ClockOf(m).targets) \subseteq ReachedObjects(ClockOf(m)'.targets)
    BY <1>3, <1>4, <2>1, <2>3
  <2>5. RestsOn(n, m)'
    BY <2>2, <2>3, <2>4 DEF RestsOn, SameDefinition
  <2>6. Before(m, n)' \/ Redefines(n)'
    BY <1>5, <2>1, <2>3 DEF Redefines
  <2> QED
    BY <1>3, <2>3, <2>5, <2>6
<1> QED
  BY <1>8, <1>9

-----------------------------------------------------------------------------
(* The clocks that the commands define.                                    *)
LEMMA PrimaryClock ==
  ASSUME Shape, NEW cmd \in PrimaryCommands, DefinePrimary(cmd)
  PROVE  \E clock \in ClockObject, invalid \in BOOLEAN :
           Supported(clock) /\ Record(clock.name, clock, cmd.add, invalid)
<1> DEFINE clock == [name |-> ClockName(cmd), targets |-> cmd.targets,
                     period |-> cmd.period, generated |-> FALSE, source |-> {},
                     master |-> NoName, divide |-> 1]
<1>1. ClockName(cmd) \in Names /\ cmd.targets \subseteq Points
  BY NameOfCommand
<1>2. cmd.period \in Int \cup {NoPeriod}
  BY ClockConstants
<1>3. clock \in ClockObject /\ Supported(clock)
  BY <1>1, <1>2 DEF ClockObject, Supported
<1>4. \E invalid \in BOOLEAN : Record(clock.name, clock, cmd.add, invalid)
  BY DEF DefinePrimary
<1> QED
  BY <1>3, <1>4

LEMMA GeneratedClock ==
  ASSUME Shape, NEW cmd \in GeneratedCommands, DefineGenerated(cmd)
  PROVE  \E clock \in ClockObject, invalid \in BOOLEAN :
           Supported(clock) /\ Record(clock.name, clock, cmd.add, invalid)
<1> DEFINE name       == ClockName(cmd)
           malformed  == \/ cmd.malformed \/ cmd.targets = {}
                         \/ Cardinality(cmd.source) # 1
                         \/ cmd.add /\ (cmd.name = NoName \/ cmd.master = NoName)
           badMaster  == cmd.master # NoName /\ cmd.master \notin Defined \ invalid_clocks
           reaching   == SourceCandidates(cmd, name)
           ambiguous  == cmd.master = NoName /\ Cardinality(reaching) > 1
           candidates == CASE badMaster             -> {}
                           [] cmd.master = NoName   -> reaching
                           [] OTHER                 -> reaching \cap {cmd.master}
           invalid    == malformed \/ badMaster \/ ambiguous
           sources    == IF invalid \/ Cardinality(candidates) # 1 THEN {} ELSE candidates
           period     == IF sources = {} THEN NoPeriod
                         ELSE LET s == CHOOSE n \in sources : TRUE
                              IN  DerivedPeriod(ClockOf(s).period, cmd.divide)
           master     == IF cmd.master # NoName THEN IF badMaster THEN NoName ELSE cmd.master
                         ELSE IF sources # {} THEN CHOOSE n \in sources : TRUE ELSE NoName
           clock      == [name |-> name, targets |-> cmd.targets, period |-> period,
                          generated |-> TRUE, source |-> cmd.source,
                          master |-> master, divide |-> cmd.divide]
<1>1. name \in Names /\ cmd.targets \subseteq Points
  BY NameOfCommand
<1>2. /\ cmd.source \subseteq Points /\ cmd.master \in Names \cup {NoName}
      /\ cmd.divide \in Nat \ {0}
  BY ClockConstants
<1>3. Record(clock.name, clock, cmd.add, invalid) /\ invalid \in BOOLEAN
  BY DEF DefineGenerated
<1>4. \A n \in Defined : n \in Names /\ ClockOf(n).period \in Int \cup {NoPeriod}
  <2>1. \A n \in Defined : ClockOf(n) \in ClockObject /\ ClockOf(n).name = n
    BY DEF Shape, ClockOf
  <2> QED
    BY <2>1 DEF ClockObject
<1>5. /\ sources \subseteq reaching /\ reaching \subseteq Defined /\ name \notin reaching
      /\ \A n \in reaching : cmd.source \cap ReachedObjects(ClockOf(n).targets) # {}
      /\ cmd.master # NoName => sources \subseteq {cmd.master}
  <2>1. sources = {} \/ sources = candidates
    OBVIOUS
  <2>2. candidates \subseteq reaching /\ (cmd.master # NoName => candidates \subseteq {cmd.master})
    <3>1. CASE badMaster
      BY <3>1
    <3>2. CASE ~badMaster /\ cmd.master = NoName
      BY <3>2
    <3>3. CASE ~badMaster /\ cmd.master # NoName
      BY <3>3
    <3> QED
      BY <3>1, <3>2, <3>3
  <2>3. /\ reaching \subseteq Defined /\ name \notin reaching
        /\ \A n \in reaching : cmd.source \cap ReachedObjects(ClockOf(n).targets) # {}
    BY DEF SourceCandidates
  <2> QED
    BY <2>1, <2>2, <2>3
<1> DEFINE source == CHOOSE n \in sources : TRUE
<1>6. /\ sources = {} => period = NoPeriod
      /\ sources # {} => period = DerivedPeriod(ClockOf(source).period, cmd.divide)
      /\ badMaster => sources = {}
  OBVIOUS
<1> HIDE DEF candidates, sources, reaching, invalid, malformed, badMaster, ambiguous, name
<1>7. sources # {} => source \in sources
  OBVIOUS
<1>8. period \in Int \cup {NoPeriod}
  BY <1>2, <1>4, <1>5, <1>6, <1>7 DEF DerivedPeriod
<1>9. period # NoPeriod =>
        /\ source \in reaching /\ master = source
        /\ ClockOf(source).period \in Int /\ ClockOf(source).period > 0
        /\ period = ClockOf(source).period * cmd.divide
  <2> SUFFICES ASSUME period # NoPeriod
               PROVE  /\ source \in reaching /\ master = source
                      /\ ClockOf(source).period \in Int /\ ClockOf(source).period > 0
                      /\ period = ClockOf(source).period * cmd.divide
    OBVIOUS
  <2>1. source \in reaching /\ source \in sources /\ ~badMaster
    BY <1>5, <1>6, <1>7
  <2>2. ClockOf(source).period \in Int /\ ~(ClockOf(source).period <= 0)
        /\ period = ClockOf(source).period * cmd.divide
    <3> HIDE DEF source
    <3> QED
      BY <1>4, <1>5, <1>6, <2>1 DEF DerivedPeriod
  <2>3. ClockOf(source).period > 0
    BY <2>2
  <2>4. master = source
    BY <1>5, <2>1
  <2> QED
    BY <2>1, <2>2, <2>3, <2>4
<1>10. master \in Names \cup {NoName}
  BY <1>2, <1>4, <1>5, <1>7
<1> HIDE DEF period, master, source
<1>11. clock \in ClockObject
  BY <1>1, <1>2, <1>8, <1>10 DEF ClockObject
<1>12. Supported(clock)
  BY <1>5, <1>9 DEF Supported
<1> QED
  BY <1>3, <1>11, <1>12

-----------------------------------------------------------------------------
(* While clocks are being defined nothing has been audited.                *)
LEMMA NothingAudited ==
  ASSUME Progress, Judged, pass \in {"primary", "generated"}
  PROVE  DOMAIN clock_reach = {} /\ valid_clocks = {}
<1>1. Visited = 0
  BY DEF Progress
<1>2. 1..0 = {}
  OBVIOUS
<1>3. DOMAIN clock_reach = {}
  BY <1>1, <1>2 DEF Progress
<1> QED
  BY <1>3 DEF Judged

(* The next clock of the audit has not been audited yet, and whatever      *)
(* comes before it in the dict has.                                        *)
LEMMA NextClock ==
  ASSUME Shape, Progress, Visited < Len(order)
  PROVE  LET name == order[Visited + 1] IN
         /\ name \in Defined /\ name \notin DOMAIN clock_reach
         /\ DOMAIN clock_reach \cup {name} = {order[i] : i \in 1..(Visited + 1)}
         /\ \A m : Before(m, name) <=> m \in DOMAIN clock_reach
         /\ Cardinality(DOMAIN clock_reach \cup {name}) = Visited + 1
         /\ IsFiniteSet(DOMAIN clock_reach \cup {name}) /\ Visited + 1 \in 0..Len(order)
<1> DEFINE name == order[Visited + 1]
<1>1. Len(order) \in Nat /\ Visited \in Nat /\ DOMAIN order = 1..Len(order)
  BY DEF Shape, Progress
<1>2. Visited + 1 \in DOMAIN order /\ Visited + 1 \in 0..Len(order)
  BY <1>1
<1>3. \A i \in 1..Visited : i \in DOMAIN order /\ i # Visited + 1
  BY <1>1
<1>4. name \in Defined /\ name \notin DOMAIN clock_reach
  BY <1>2, <1>3 DEF Shape, Progress
<1>5. 1..(Visited + 1) = (1..Visited) \cup {Visited + 1}
  BY <1>1
<1>6. DOMAIN clock_reach \cup {name} = {order[i] : i \in 1..(Visited + 1)}
  BY <1>5 DEF Progress
<1>7. ASSUME NEW m PROVE Before(m, name) <=> m \in DOMAIN clock_reach
  <2>1. ASSUME Before(m, name) PROVE m \in DOMAIN clock_reach
    <3>1. PICK i, j \in DOMAIN order : i < j /\ m = order[i] /\ name = order[j]
      BY <2>1 DEF Before
    <3>2. j = Visited + 1
      BY <1>2, <3>1 DEF Shape
    <3>3. i \in 1..Visited
      BY <1>1, <3>1, <3>2
    <3> QED
      BY <3>1, <3>3 DEF Progress
  <2>2. ASSUME m \in DOMAIN clock_reach PROVE Before(m, name)
    <3>1. PICK i \in 1..Visited : m = order[i]
      BY <2>2 DEF Progress
    <3>2. i \in DOMAIN order /\ i < Visited + 1
      BY <1>1
    <3> QED
      BY <1>2, <3>1, <3>2 DEF Before
  <2> QED
    BY <2>1, <2>2
<1>8. /\ IsFiniteSet(DOMAIN clock_reach \cup {name})
      /\ Cardinality(DOMAIN clock_reach \cup {name}) = Visited + 1
  <2>1. IsFiniteSet(DOMAIN clock_reach)
    BY DEF Progress
  <2> HIDE DEF name
  <2> QED
    BY <1>4, <2>1, FS_AddElement DEF Visited
<1> QED
  BY <1>2, <1>4, <1>6, <1>7, <1>8

LEMMA AuditStep ==
  ASSUME Inv, AuditClock PROVE Progress' /\ Judged'
<1> DEFINE name   == order[Visited + 1]
           clock  == ClockOf(name)
           reach  == [n \in DOMAIN clock_reach \cup {name} |->
                        IF n = name THEN ReachedObjects(clock.targets) ELSE clock_reach[n]]
           sound  == /\ ~(clock.period = NoPeriod \/ clock.period <= 0)
                     /\ ~(clock.generated /\ clock.source = {})
                     /\ ~(clock.generated /\ Masters(clock, name, reach) = {})
<1>1. /\ pass = "audit" /\ pass' = pass /\ Visited < Len(order)
      /\ UNCHANGED <<objects, order, clocks, invalid_clocks, duplicate_clocks>>
      /\ clock_reach' = reach
  BY DEF AuditClock, buildVars, Visited
<1>2. valid_clocks' = IF sound /\ name \notin invalid_clocks
                      THEN valid_clocks \cup {name} ELSE valid_clocks
  <2> DEFINE Breaks(rule) ==
               CASE rule = "OC2001" -> clock.period = NoPeriod \/ clock.period <= 0
                 [] rule = "OC2010" -> clock.generated /\ clock.source = {}
                 [] rule = "OC2011" -> clock.generated /\ Masters(clock, name, reach) = {}
             broken == {rule \in {"OC2001", "OC2010", "OC2011"} : Breaks(rule)}
  <2>1. valid_clocks' = IF broken = {} /\ name \notin invalid_clocks
                        THEN valid_clocks \cup {name} ELSE valid_clocks
    BY DEF AuditClock, Visited
  <2> HIDE DEF clock, name, reach
  <2>2. /\ Breaks("OC2001") <=> clock.period = NoPeriod \/ clock.period <= 0
        /\ Breaks("OC2010") <=> clock.generated /\ clock.source = {}
        /\ Breaks("OC2011") <=> clock.generated /\ Masters(clock, name, reach) = {}
    OBVIOUS
  <2> HIDE DEF Breaks
  <2>3. broken = {} <=> sound
    BY <2>2
  <2> QED
    BY <2>1, <2>3
<1>3. /\ name \in Defined /\ name \notin DOMAIN clock_reach
      /\ DOMAIN clock_reach \cup {name} = {order[i] : i \in 1..(Visited + 1)}
      /\ \A m : Before(m, name) <=> m \in DOMAIN clock_reach
      /\ Cardinality(DOMAIN clock_reach \cup {name}) = Visited + 1
      /\ IsFiniteSet(DOMAIN clock_reach \cup {name}) /\ Visited + 1 \in 0..Len(order)
  BY <1>1, NextClock DEF Inv
<1> HIDE DEF name, clock
<1>4. /\ DOMAIN reach = DOMAIN clock_reach \cup {name}
      /\ reach[name] = ReachedObjects(clock.targets)
      /\ \A m \in DOMAIN clock_reach : reach[m] = clock_reach[m]
  BY <1>3
<1> HIDE DEF reach
<1>5. Progress'
  <2>1. Visited' = Visited + 1 /\ DOMAIN clock_reach' = DOMAIN clock_reach \cup {name}
    BY <1>1, <1>3, <1>4 DEF Visited
  <2> QED
    BY <1>1, <1>3, <2>1 DEF Progress
<1>6. /\ \A n : ClockOf(n)' = ClockOf(n) /\ (HasDerivedPeriod(n)' <=> HasDerivedPeriod(n))
      /\ \A m, n : Before(m, n)' <=> Before(m, n)
      /\ \A n : Disturbed(n)' <=> Disturbed(n)
  BY <1>1 DEF ClockOf, HasDerivedPeriod, Before, Disturbed, Redefines, RedefinedAfter
<1>7. \A n \in DOMAIN clock_reach' : clock_reach'[n] = ReachedObjects(ClockOf(n)'.targets)
  BY <1>1, <1>3, <1>4, <1>6 DEF Inv, Judged, clock
(* A clock found valid now has a period and an audited master.             *)
<1>8. sound =>
        /\ clock.period # NoPeriod
        /\ clock.generated /\ clock.master # NoName => Before(clock.master, name)
  <2> SUFFICES ASSUME sound, clock.generated, clock.master # NoName
               PROVE  Before(clock.master, name)
    OBVIOUS
  <2>1. PICK m \in Masters(clock, name, reach) : TRUE
    OBVIOUS
  <2>2. m \in DOMAIN clock_reach /\ m = clock.master
    BY <1>4, <2>1 DEF Masters
  <2> QED
    BY <1>3, <2>2
(* Nothing else stops a clock with a derived period.                       *)
<1>9. HasDerivedPeriod(name) /\ ~Disturbed(name) => sound
  <2> SUFFICES ASSUME HasDerivedPeriod(name), ~Disturbed(name) PROVE sound
    OBVIOUS
  <2>0. PICK m : m = clock.master
    OBVIOUS
  <2>1. RestsOn(name, m) /\ Before(m, name)
    BY <1>3, <2>0 DEF Inv, Derived, Disturbed, clock
  <2>2. /\ m \in DOMAIN clock_reach
        /\ clock.source \cap ReachedObjects(ClockOf(m).targets) # {}
        /\ ClockOf(m).period \in Int /\ ClockOf(m).period > 0
        /\ clock.period = ClockOf(m).period * clock.divide
    BY <1>3, <2>1 DEF RestsOn, clock
  <2>3. clock.divide \in Nat \ {0}
    <3>1. clock \in ClockObject
      BY <1>3 DEF Inv, Shape, clock, ClockOf
    <3> QED
      BY <3>1 DEF ClockObject
  <2>4. \A x \in Int : \A y \in Nat \ {0} : x > 0 => x * y \in Int /\ x * y > 0
    OBVIOUS
  <2>5. clock.period \in Int /\ clock.period > 0
    BY <2>2, <2>3, <2>4
  <2>6. clock.period # NoPeriod /\ ~(clock.period <= 0)
    BY <2>5, ClockConstants
  <2>7. reach[m] = ReachedObjects(ClockOf(m).targets) /\ m # name /\ m \in DOMAIN reach
    BY <1>3, <1>4, <2>2 DEF Inv, Judged
  <2>8. m \in Masters(clock, name, reach)
    BY <2>0, <2>2, <2>7 DEF Masters
  <2> QED
    BY <2>2, <2>6, <2>8
<1> HIDE DEF sound
<1>10. Judged'
  <2>1. valid_clocks' \subseteq DOMAIN clock_reach'
    BY <1>1, <1>2, <1>4 DEF Inv, Judged
  <2>2. ASSUME NEW n \in valid_clocks'
        PROVE  /\ ClockOf(n).period # NoPeriod
               /\ ClockOf(n).generated /\ ClockOf(n).master # NoName => Before(ClockOf(n).master, n)
    <3>1. CASE n \in valid_clocks
      BY <3>1 DEF Inv, Judged
    <3>2. CASE n = name /\ sound
      BY <1>8, <3>2 DEF clock
    <3> QED
      BY <1>2, <3>1, <3>2
  <2>3. ASSUME NEW n \in DOMAIN clock_reach', n \notin invalid_clocks,
               HasDerivedPeriod(n), ~Disturbed(n)
        PROVE  n \in valid_clocks'
    <3>1. CASE n \in DOMAIN clock_reach
      BY <1>2, <2>3, <3>1 DEF Inv, Judged
    <3>2. CASE n = name
      BY <1>2, <1>9, <2>3, <3>2
    <3> QED
      BY <1>1, <1>4, <3>1, <3>2
  <2> QED
    BY <1>1, <1>6, <1>7, <2>1, <2>2, <2>3 DEF Judged
<1> QED
  BY <1>5, <1>10

-----------------------------------------------------------------------------
LEMMA InitInv == Init => Inv
<1> SUFFICES ASSUME Init PROVE Inv
  OBVIOUS
<1>1. /\ Defined = {} /\ DOMAIN clock_reach = {} /\ objects = <<>> /\ order = <<>>
      /\ accepted = {} /\ duplicate_clocks = {} /\ valid_clocks = {} /\ pass = "primary"
  BY DEF Init, Defined
<1>2. Visited = 0 /\ IsFiniteSet(DOMAIN clock_reach)
  BY <1>1, FS_EmptySet DEF Visited
<1>3. Shape
  BY <1>1 DEF Shape
<1>4. NoSilentLoss /\ Derived /\ Judged /\ Told
  BY <1>1 DEF NoSilentLoss, Derived, Judged, Told
<1>5. Progress
  <2>1. 1..0 = {} /\ Len(order) = 0
    BY <1>1
  <2> QED
    BY <1>1, <1>2, <2>1 DEF Progress
<1> QED
  BY <1>3, <1>4, <1>5 DEF Inv

(* A command of either pass.                                               *)
LEMMA DefinitionStep ==
  ASSUME Inv, NEW clock \in ClockObject, Supported(clock),
         NEW add \in BOOLEAN, NEW invalid \in BOOLEAN,
         Record(clock.name, clock, add, invalid),
         pass \in {"primary", "generated"}, UNCHANGED <<pass, clock_reach, valid_clocks>>
  PROVE  Inv'
<1>1. Shape'
  BY RecordShape DEF Inv
<1>2. NoSilentLoss'
  BY RecordKeepsTrack DEF Inv
<1>3. Derived'
  BY RecordKeepsDerived DEF Inv
<1>4. DOMAIN clock_reach' = {} /\ valid_clocks' = {}
  BY NothingAudited DEF Inv
<1>5. Progress'
  <2>1. 1..0 = {} /\ Len(order') \in Nat
    BY <1>1 DEF Shape
  <2>2. Visited' = 0 /\ IsFiniteSet(DOMAIN clock_reach')
    BY <1>4, FS_EmptySet DEF Visited
  <2> QED
    BY <1>4, <2>1, <2>2 DEF Progress
<1>6. Judged' /\ Told'
  BY <1>4 DEF Judged, Told
<1> QED
  BY <1>1, <1>2, <1>3, <1>5, <1>6 DEF Inv

LEMMA ReportTells == ReportDuplicates => Told'
<1> SUFFICES ASSUME ReportDuplicates, NEW d \in duplicate_clocks'
             PROVE  \E f \in findings' :
                      f[1] \in {"OC2003 warning", "OC2003 error"} /\ f[2] = d[2]
  BY DEF Told
<1>1. d \in duplicate_clocks
  BY DEF ReportDuplicates, buildVars
<1>2. PICK rule \in {"OC2003 warning", "OC2003 error"} : <<rule, d[2]>> \in findings'
  BY <1>1 DEF ReportDuplicates
<1> QED
  BY <1>2

LEMMA NextInv == Inv /\ [Next]_vars => Inv'
<1> SUFFICES ASSUME Inv, [Next]_vars PROVE Inv'
  OBVIOUS
<1>1. ASSUME NEW cmd \in PrimaryCommands, DefinePrimary(cmd) PROVE Inv'
  <2>1. PICK clock \in ClockObject, invalid \in BOOLEAN :
          Supported(clock) /\ Record(clock.name, clock, cmd.add, invalid)
    BY <1>1, PrimaryClock DEF Inv
  <2>2. cmd.add \in BOOLEAN
    BY ClockConstants
  <2>3. pass = "primary" /\ UNCHANGED <<pass, clock_reach, valid_clocks>>
    BY <1>1 DEF DefinePrimary
  <2> QED
    BY <2>1, <2>2, <2>3, DefinitionStep
<1>2. ASSUME NEW cmd \in GeneratedCommands, DefineGenerated(cmd) PROVE Inv'
  <2>1. PICK clock \in ClockObject, invalid \in BOOLEAN :
          Supported(clock) /\ Record(clock.name, clock, cmd.add, invalid)
    BY <1>2, GeneratedClock DEF Inv
  <2>2. cmd.add \in BOOLEAN
    BY ClockConstants
  <2>3. pass = "generated" /\ UNCHANGED <<pass, clock_reach, valid_clocks>>
    BY <1>2 DEF DefineGenerated
  <2> QED
    BY <2>1, <2>2, <2>3, DefinitionStep
<1>3. ASSUME UNCHANGED buildVars PROVE Shape' /\ NoSilentLoss' /\ Derived'
  <2>1. Shape'
    BY <1>3 DEF Inv, Shape, buildVars, Defined, ClockOf
  <2>2. NoSilentLoss'
    BY <1>3 DEF Inv, NoSilentLoss, buildVars, ClockOf
  <2>3. Derived'
    BY <1>3 DEF Inv, Derived, HasDerivedPeriod, RestsOn, RedefinedAfter, Redefines, Before,
                buildVars, Defined, ClockOf
  <2> QED
    BY <2>1, <2>2, <2>3
<1>4. CASE AuditClock
  <2>1. Progress' /\ Judged'
    BY <1>4, AuditStep
  <2>2. Told'
    BY <1>4 DEF AuditClock, Told
  <2> QED
    BY <1>3, <1>4, <2>1, <2>2 DEF AuditClock, Inv
<1>5. CASE EndPrimaryPass \/ EndGeneratedPass \/ EndAudit \/ ReportDuplicates \/ UNCHANGED vars
  <2>1. UNCHANGED buildVars /\ UNCHANGED auditVars
    BY <1>5 DEF EndPrimaryPass, EndGeneratedPass, EndAudit, ReportDuplicates, vars, buildVars, auditVars
  <2>2. Progress'
    <3>1. Visited' = Visited /\ order' = order /\ clock_reach' = clock_reach
      BY <2>1 DEF Visited, buildVars, auditVars
    <3>2. \/ pass' = pass
          \/ pass = "primary" /\ pass' = "generated"
          \/ pass = "generated" /\ pass' = "audit"
          \/ pass = "audit" /\ Visited = Len(order) /\ pass' = "report"
          \/ pass = "report" /\ pass' = "done"
      BY <1>5 DEF EndPrimaryPass, EndGeneratedPass, EndAudit, ReportDuplicates, vars, Visited
    <3> QED
      BY <3>1, <3>2 DEF Inv, Progress
  <2>3. Judged'
    BY <2>1 DEF Inv, Judged, HasDerivedPeriod, Disturbed, Redefines, RedefinedAfter, Before,
                buildVars, auditVars, ClockOf
  <2>4. Told'
    BY <1>5, <2>1, ReportTells DEF Inv, Told, EndPrimaryPass, EndGeneratedPass, EndAudit,
                                   vars, buildVars
  <2> QED
    BY <1>3, <2>1, <2>2, <2>3, <2>4 DEF Inv
<1> QED
  BY <1>1, <1>2, <1>4, <1>5 DEF Next

LEMMA Invariance == Spec => []Inv
<1>1. Init => Inv
  BY InitInv
<1>2. Inv /\ [Next]_vars => Inv'
  BY NextInv
<1> QED
  BY <1>1, <1>2, PTL DEF Spec

-----------------------------------------------------------------------------
(* Every accepted definition is still in force, merged with others, or a   *)
(* later one of its name is kept beside it for OC2003.                     *)
THEOREM NothingIsLost == Spec => []NoSilentLoss
<1>1. Inv => NoSilentLoss
  BY DEF Inv
<1> QED
  BY <1>1, Invariance, PTL

(* What disturbs a derived clock is a redefinition, which OC2003 reports.  *)
LEMMA DisturbanceTold ==
  ASSUME Inv, pass = "done"
  PROVE  /\ \A n \in Defined : Redefines(n) => ToldRedefined(n, clocks[n])
         /\ \A m : \A n \in Defined : RedefinedAfter(m, clocks[n]) => ToldRedefined(m, clocks[n])
<1>1. ASSUME NEW d \in duplicate_clocks
      PROVE  /\ d[2] \in Nat
             /\ \E f \in findings : f[1] \in {"OC2003 warning", "OC2003 error"} /\ f[2] = d[2]
  <2>1. d[2] \in Nat
    BY DEF Inv, Shape
  <2> QED
    BY <2>1 DEF Inv, Told
<1>2. \A n \in Defined : clocks[n] \in Nat /\ objects[clocks[n]].name = n
  BY DEF Inv, Shape, ClockOf
<1>3. ASSUME NEW n \in Defined, Redefines(n) PROVE ToldRedefined(n, clocks[n])
  <2>1. PICK d \in duplicate_clocks : d[2] = clocks[n]
    BY <1>3 DEF Redefines
  <2>2. PICK f \in findings : f[1] \in {"OC2003 warning", "OC2003 error"} /\ f[2] = d[2]
    BY <1>1
  <2>3. f[2] >= clocks[n]
    <3> DEFINE told == f[2]  at == clocks[n]
    <3>1. told \in Nat /\ at \in Nat /\ (told = at \/ told > at)
      BY <1>1, <1>2, <2>1, <2>2
    <3> HIDE DEF told, at
    <3>2. told >= at
      BY <3>1
    <3> QED
      BY <3>2 DEF told, at
  <2>4. objects[f[2]].name = n
    BY <1>2, <2>1, <2>2
  <2> QED
    BY <2>2, <2>3, <2>4 DEF ToldRedefined
<1>4. ASSUME NEW m, NEW n \in Defined, RedefinedAfter(m, clocks[n])
      PROVE  ToldRedefined(m, clocks[n])
  <2>1. PICK d \in duplicate_clocks : d[2] > clocks[n] /\ objects[d[2]].name = m
    BY <1>4 DEF RedefinedAfter
  <2>2. PICK f \in findings : f[1] \in {"OC2003 warning", "OC2003 error"} /\ f[2] = d[2]
    BY <1>1
  <2>3. f[2] >= clocks[n]
    <3> DEFINE told == f[2]  at == clocks[n]
    <3>1. told \in Nat /\ at \in Nat /\ (told = at \/ told > at)
      BY <1>1, <1>2, <2>1, <2>2
    <3> HIDE DEF told, at
    <3>2. told >= at
      BY <3>1
    <3> QED
      BY <3>2 DEF told, at
  <2>4. objects[f[2]].name = m
    BY <1>2, <2>1, <2>2
  <2> QED
    BY <2>2, <2>3, <2>4 DEF ToldRedefined
<1> QED
  BY <1>3, <1>4

(* The audit accepts whatever the building passes could derive, unless a   *)
(* redefinition that OC2003 reports came between.                          *)
THEOREM AuditAcceptsDerived == Spec => []BuildAndAuditAgree
<1>1. Inv => BuildAndAuditAgree
  <2> SUFFICES ASSUME Inv, pass = "done", NEW n \in Defined,
                      n \notin invalid_clocks, HasDerivedPeriod(n)
               PROVE  \/ n \in valid_clocks
                      \/ ToldRedefined(n, clocks[n])
                      \/ ToldRedefined(ClockOf(n).master, clocks[n])
    BY DEF BuildAndAuditAgree, HasDerivedPeriod
  <2>1. n \in DOMAIN clock_reach
    <3>1. Visited = Len(order) /\ DOMAIN order = 1..Len(order)
      BY DEF Inv, Progress, Shape
    <3> QED
      BY <3>1 DEF Inv, Progress, Shape
  <2>2. n \in valid_clocks \/ Disturbed(n)
    BY <2>1 DEF Inv, Judged
  <2> QED
    BY <2>2, DisturbanceTold DEF Disturbed
<1> QED
  BY <1>1, Invariance, PTL

(* A period copied from a master while building is still the master's, or  *)
(* OC2003 reports that the master was redefined since.                     *)
THEOREM PeriodsStayCurrent == Spec => []DerivedPeriodCurrent
<1>1. Inv => DerivedPeriodCurrent
  <2> SUFFICES ASSUME Inv, pass = "done", NEW n \in valid_clocks, ClockOf(n).generated,
                      NEW m, m = ClockOf(n).master
               PROVE  /\ m \in Defined
                      /\ \/ /\ ClockOf(m).period # NoPeriod
                            /\ ClockOf(n).period = ClockOf(m).period * ClockOf(n).divide
                         \/ ToldRedefined(m, clocks[n])
    BY DEF DerivedPeriodCurrent
  <2>1. n \in Defined
    <3>1. \A i \in 1..Visited : i \in DOMAIN order
      BY DEF Inv, Progress, Shape
    <3> QED
      BY <3>1 DEF Inv, Judged, Progress, Shape
  <2>2. m \in Defined /\ (RestsOn(n, m) \/ RedefinedAfter(m, clocks[n]))
    BY <2>1 DEF Inv, Judged, Derived, HasDerivedPeriod
  <2>3. NoPeriod \notin Int
    BY ClockConstants
  <2> QED
    BY <2>1, <2>2, <2>3, DisturbanceTold DEF RestsOn
<1> QED
  BY <1>1, Invariance, PTL

(* The valid clock of a set that the audit met first rests on none of the  *)
(* set: its master, if it names one, was audited before it.                *)
THEOREM MastersAreRooted == Spec => []NoValidMasterRing
<1>1. Inv => NoValidMasterRing
  <2> SUFFICES ASSUME Inv, NEW S \in SUBSET valid_clocks, S # {}
               PROVE  \E n \in S : ~ClockOf(n).generated \/ ClockOf(n).master \notin S
    BY DEF NoValidMasterRing
  <2> DEFINE positions == {i \in DOMAIN order : order[i] \in S}
  <2>1. \A n \in S : n \in Names /\ \E i \in DOMAIN order : order[i] = n
    <3>1. \A i \in 1..Visited : i \in DOMAIN order /\ order[i] \in Names
      BY DEF Inv, Progress, Shape
    <3> QED
      BY <3>1 DEF Inv, Judged, Progress
  <2>2. positions \in SUBSET Nat /\ positions # {}
    BY <2>1 DEF Inv, Shape
  <2>3. PICK first \in positions : \A i \in positions : first <= i
    <3> HIDE DEF positions
    <3> QED
      BY <2>2, LeastNatural
  <2> DEFINE n == order[first]
  <2>4. ASSUME ClockOf(n).generated, ClockOf(n).master \in S PROVE FALSE
    <3>1. ClockOf(n).master # NoName
      BY <2>1, <2>4, ClockConstants
    <3>2. Before(ClockOf(n).master, n)
      BY <2>4, <3>1 DEF Inv, Judged
    <3>3. PICK i, j \in DOMAIN order : i < j /\ ClockOf(n).master = order[i] /\ n = order[j]
      BY <3>2 DEF Before
    <3>4. j = first /\ i \in positions
      BY <2>3, <2>4, <3>3 DEF Inv, Shape
    <3>5. first \in Nat /\ i \in Nat /\ i < first /\ first <= i
      BY <2>2, <2>3, <3>3, <3>4
    <3> QED
      BY <3>5
  <2> QED
    BY <2>4
<1> QED
  BY <1>1, Invariance, PTL
=============================================================================
