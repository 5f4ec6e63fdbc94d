------------------------------ MODULE IODelays ------------------------------
(***************************************************************************)
(* Input and output delays of one mode.  engine._collect_io_delay appends  *)
(* one IODelay per set_input_delay / set_output_delay and notes which      *)
(* ports are delayed.  The list is then replayed twice, by two independent *)
(* pieces of code: engine._audit_io_delays keeps, for every slot, the      *)
(* command it comes from, and reports OC3013 and OC3014; model.effective_  *)
(* io_delay_semantics keeps the value and compacts the result to records,  *)
(* from which engine._io_delay_slot_counts computes the coverage.          *)
(*                                                                         *)
(* A command is what its options and selectors resolved to.  The latency-  *)
(* inclusion flags travel with the reference pin and are left out, and so  *)
(* are commands with opaque operands, whose record is rolled back at once. *)
(***************************************************************************)
EXTENDS Integers, Sequences, FiniteSets

CONSTANTS
  Ports,
  Direction,     \* port -> the kinds of delay it may have (inout: both)
  ClockPorts,    \* ports whose clock reaches a register, see _required_io
  Clocks,        \* names of valid clocks
  ClockTargets,  \* clock -> ports it is defined on
  Pins,          \* ports and pins a -reference_pin may resolve to
  NoPin,         \* no -reference_pin, or one that does not resolve
  NoValue,       \* an undecodable delay
  Commands,      \* set_input_delay and set_output_delay commands
  MaxCommands    \* bound on the number of commands

Kinds == {"input", "output"}
Senses == {"min", "max"}
Transitions == {"rise", "fall"}
AllSlots == Transitions \X Senses

Command ==
  [ kind : Kinds, targets : SUBSET Ports, value : Int \cup {NoValue},
    clocks : SUBSET Clocks, clocksValid : BOOLEAN, edge : Transitions,
    pin : Pins \cup {NoPin}, pinValid : BOOLEAN,
    senses : (SUBSET Senses) \ {{}}, transitions : (SUBSET Transitions) \ {{}},
    additive : BOOLEAN, malformed : BOOLEAN ]

(* _clock_references and _reference_pin accept singletons only.            *)
ASSUME IODelayConstants ==
  /\ IsFiniteSet(Ports) /\ Direction \in [Ports -> SUBSET Kinds]
  /\ ClockPorts \subseteq Ports
  /\ ClockTargets \in [Clocks -> SUBSET Ports]
  /\ NoPin \notin Pins /\ NoValue \notin Int
  /\ Commands \subseteq Command
  /\ \A c \in Commands : /\ c.clocksValid => \A x, y \in c.clocks : x = y
                         /\ ~c.pinValid => c.pin = NoPin
  /\ MaxCommands \in Nat

VARIABLES
  pass,       \* "collect", "audit", "replay", "done"
  cursor,     \* items replayed in this pass
  io_delays,  \* state.io_delays
  delayed,    \* kind -> state.delayed_inputs / state.delayed_outputs
  ledger,     \* the audit's active state: key -> slot -> index of an item
  active,     \* the replay's: key -> [values : slot -> value, pin]
  findings,
  coverage    \* kind -> slots covered and slots in all

vars == <<pass, cursor, io_delays, delayed, ledger, active, findings, coverage>>

Nothing == [x \in {} |-> 0]

Init ==
  /\ pass = "collect" /\ cursor = 0
  /\ io_delays = <<>> /\ delayed = [k \in Kinds |-> {}]
  /\ ledger = Nothing /\ active = Nothing
  /\ findings = {} /\ coverage = Nothing

-----------------------------------------------------------------------------
(* Collection.                                                             *)
ValidPorts(cmd) ==
  {p \in cmd.targets : /\ cmd.kind \in Direction[p]
                       /\ cmd.clocksValid => \A c \in cmd.clocks : p \notin ClockTargets[c]}

WellDefined(cmd) ==
  ~cmd.malformed /\ cmd.value # NoValue /\ cmd.clocksValid /\ cmd.pinValid

DelayOf(cmd) ==
  [ kind |-> cmd.kind, ports |-> ValidPorts(cmd), value |-> cmd.value,
    clocks |-> cmd.clocks, edge |-> cmd.edge, pin |-> cmd.pin,
    senses |-> cmd.senses, transitions |-> cmd.transitions,
    additive |-> cmd.additive,
    valid |-> WellDefined(cmd) /\ ValidPorts(cmd) # {} ]

Collect(cmd) ==
  /\ pass = "collect" /\ Len(io_delays) < MaxCommands
  /\ io_delays' = Append(io_delays, DelayOf(cmd))
  /\ delayed' = IF WellDefined(cmd)
                THEN [delayed EXCEPT ![cmd.kind] = @ \cup ValidPorts(cmd)] ELSE delayed
  /\ UNCHANGED <<pass, cursor, ledger, active, findings, coverage>>

EndCollection ==
  /\ pass = "collect" /\ pass' = "audit"
  /\ UNCHANGED <<cursor, io_delays, delayed, ledger, active, findings, coverage>>

-----------------------------------------------------------------------------
(* What both replays share: a relationship is keyed by kind, port, clocks  *)
(* and clock edge, and without a clock the edge means nothing.             *)
Key(item, port) ==
  [ kind |-> item.kind, port |-> port, clocks |-> item.clocks,
    edge |-> IF item.clocks = {} THEN "rise" ELSE item.edge ]

Keys(item) == {Key(item, p) : p \in item.ports}

Slots(item) == item.transitions \X item.senses

(* The relationships that compete with the one of `item' on its ports.     *)
Competing(item, keys) ==
  {k \in keys : k.kind = item.kind /\ k.port \in item.ports /\ k # Key(item, k.port)}

SurvivingNone(item, keys) == keys \ Competing(item, keys)   \* faulty: -add_delay forgotten

Surviving(item, keys) == IF item.additive THEN keys ELSE keys \ Competing(item, keys)

SlotsOf(state, key) == IF key \in DOMAIN state THEN DOMAIN state[key] ELSE {}

(* _audit_io_delays: an additive value takes over a slot when it is the    *)
(* stricter one, any other value always.  In the faulty variant the larger *)
(* value is the stricter one for -min too.                                 *)
TakesOverIfGreater(item, slot, key) ==
  \/ ~item.additive
  \/ slot \notin SlotsOf(ledger, key)
  \/ item.value > io_delays[ledger[key][slot]].value

TakesOver(item, slot, key) ==
  \/ ~item.additive
  \/ slot \notin SlotsOf(ledger, key)
  \/ LET current == io_delays[ledger[key][slot]].value
     IN  IF slot[2] = "min" THEN item.value < current ELSE item.value > current

OverwritesSlots(item, port) ==   \* faulty variant: other relationships forgotten
  ~item.additive /\ Slots(item) \cap SlotsOf(ledger, Key(item, port)) # {}

Overwrites(item, port) ==
  /\ ~item.additive
  /\ \/ \E k \in Competing(item, DOMAIN ledger) : k.port = port
     \/ Slots(item) \cap SlotsOf(ledger, Key(item, port)) # {}

AuditItem ==
  LET this == cursor + 1
      item == io_delays[this]
      Assigned(k) ==
        [s \in SlotsOf(ledger, k) \cup Slots(item) |->
           IF s \in Slots(item) /\ TakesOver(item, s, k) THEN this ELSE ledger[k][s]]
  IN  /\ pass = "audit" /\ cursor < Len(io_delays)
      /\ cursor' = this
      /\ IF item.valid
         THEN /\ ledger' = [k \in Surviving(item, DOMAIN ledger) \cup Keys(item) |->
                              IF k \in Keys(item) THEN Assigned(k) ELSE ledger[k]]
              /\ findings' = findings \cup
                   {<<"OC3014", this, p>> : p \in {q \in item.ports : Overwrites(item, q)}}
         ELSE UNCHANGED <<ledger, findings>>
      /\ UNCHANGED <<pass, io_delays, delayed, active, coverage>>

(* OC3013 for a relationship with a transition that has one sense only.    *)
Incomplete(slots) == \E s \in slots : \E sense \in Senses : <<s[1], sense>> \notin slots

EndAudit ==
  /\ pass = "audit" /\ cursor = Len(io_delays)
  /\ pass' = "replay" /\ cursor' = 0
  /\ findings' = findings \cup
       {<<"OC3013", k>> : k \in {l \in DOMAIN ledger : Incomplete(DOMAIN ledger[l])}}
  /\ UNCHANGED <<io_delays, delayed, ledger, active, coverage>>

-----------------------------------------------------------------------------
(* effective_io_delay_semantics.                                           *)
Merge(item, slot, old) ==
  IF \/ ~item.additive
     \/ slot \notin DOMAIN old
     \/ IF slot[2] = "min" THEN item.value < old[slot] ELSE item.value > old[slot]
  THEN item.value ELSE old[slot]

Updated(item, old) ==
  [s \in DOMAIN old \cup Slots(item) |->
     IF s \in Slots(item) THEN Merge(item, s, old) ELSE old[s]]

ReplayItem ==
  LET item   == io_delays[cursor + 1]
      Old(k) == IF k \in DOMAIN active THEN active[k].values ELSE Nothing
  IN  /\ pass = "replay" /\ cursor < Len(io_delays)
      /\ cursor' = cursor + 1
      /\ active' =
           IF item.valid /\ Cardinality(item.clocks) <= 1
           THEN [k \in Surviving(item, DOMAIN active) \cup Keys(item) |->
                   IF k \in Keys(item)
                   THEN [values |-> Updated(item, Old(k)), pin |-> item.pin]
                   ELSE active[k]]
           ELSE active
      /\ UNCHANGED <<pass, io_delays, delayed, ledger, findings, coverage>>

(* _io_delay_rectangles: the first of these that fits, again and again.    *)
Candidates ==
  << AllSlots,
     {"fall"} \X Senses, Transitions \X {"max"}, Transitions \X {"min"}, {"rise"} \X Senses,
     {<<"fall", "max">>}, {<<"fall", "min">>}, {<<"rise", "max">>}, {<<"rise", "min">>} >>

FirstTouching(cells) ==   \* faulty variant: a rectangle may hold other cells
  Candidates[CHOOSE i \in DOMAIN Candidates :
               /\ Candidates[i] \cap cells # {}
               /\ \A j \in 1..(i - 1) : Candidates[j] \cap cells = {}]

FirstFitting(cells) ==
  Candidates[CHOOSE i \in DOMAIN Candidates :
               /\ Candidates[i] \subseteq cells
               /\ \A j \in 1..(i - 1) : ~(Candidates[j] \subseteq cells)]

Rectangles[cells \in SUBSET AllSlots] ==
  IF cells = {} THEN {}
  ELSE {FirstFitting(cells)} \cup Rectangles[cells \ FirstFitting(cells)]

(* An active value apart from its port and its slot.                       *)
Datum(k, s) ==
  [ kind |-> k.kind, clocks |-> k.clocks, edge |-> k.edge,
    pin |-> active[k].pin, value |-> active[k].values[s] ]

Atoms ==
  UNION {{[head |-> Datum(k, s), port |-> k.port, slot |-> s] : s \in DOMAIN active[k].values} :
           k \in DOMAIN active}

PortsWith(head, slot) == {a.port : a \in {b \in Atoms : b.head = head /\ b.slot = slot}}

(* Slots with one head and one port set form a matrix; each rectangle of   *)
(* it becomes a record.                                                    *)
Records ==
  LET matrices == {[head |-> a.head, ports |-> PortsWith(a.head, a.slot)] : a \in Atoms}
  IN  UNION {{[head |-> m.head, ports |-> m.ports, cells |-> c] :
                c \in Rectangles[{s \in AllSlots : PortsWith(m.head, s) = m.ports}]} :
              m \in matrices}

-----------------------------------------------------------------------------
(* _required_io and _io_delay_slot_counts.                                 *)
Required(kind) ==
  {p \in Ports : kind \in Direction[p]} \ IF kind = "input" THEN ClockPorts ELSE {}

Relationship(h) == <<h.clocks, h.pin, h.edge>>

CoveredSlots(kind) ==
  UNION {{<<p, Relationship(r.head), s>> : p \in r.ports \cap Required(kind), s \in r.cells} :
           r \in {q \in Records : q.head.kind = kind}}

(* Invalid commands are obligations nothing covers.                        *)
Attempted(kind) ==
  {<<t[1], t[2]>> : t \in CoveredSlots(kind)}
  \cup UNION {{<<p, Relationship(io_delays[i])>> : p \in io_delays[i].ports \cap Required(kind)} :
                i \in {j \in DOMAIN io_delays : io_delays[j].kind = kind /\ ~io_delays[j].valid}}

UntouchedNone(kind) == {}   \* faulty variant: a port without commands owes nothing

Untouched(kind) == {p \in Required(kind) : \A t \in Attempted(kind) : t[1] # p}

EndReplay ==
  /\ pass = "replay" /\ cursor = Len(io_delays)
  /\ pass' = "done"
  /\ coverage' =
       [k \in Kinds |->
          [covered |-> Cardinality(CoveredSlots(k)),
           total   |-> 4 * Cardinality(Attempted(k)) + 4 * Cardinality(Untouched(k))]]
  /\ UNCHANGED <<cursor, io_delays, delayed, ledger, active, findings>>

Next ==
  \/ \E cmd \in Commands : Collect(cmd)
  \/ EndCollection
  \/ AuditItem
  \/ EndAudit
  \/ ReplayItem
  \/ EndReplay

Spec == Init /\ [][Next]_vars

-----------------------------------------------------------------------------
(* The audit and the semantic replay are separate implementations of one   *)
(* storage rule (docs/rules/OC3014.md: "the same active-state model used   *)
(* for coverage"): they end with the same relationships, slots and values. *)
ReplaysAgree ==
  pass = "done" =>
    /\ DOMAIN ledger = DOMAIN active
    /\ \A k \in DOMAIN active :
         /\ DOMAIN ledger[k] = DOMAIN active[k].values
         /\ \A s \in DOMAIN ledger[k] :
              io_delays[ledger[k][s]].value = active[k].values[s]

(* The storage rule without a replay.  The command i still speaks for a    *)
(* slot of a relationship after n commands if no later non-additive        *)
(* command on the port, up to n, has another relationship or the slot.     *)
Touches(i, key, slot) ==
  /\ io_delays[i].valid /\ key \in Keys(io_delays[i]) /\ slot \in Slots(io_delays[i])

Overrules(j, key, slot) ==
  /\ io_delays[j].valid /\ ~io_delays[j].additive
  /\ key.kind = io_delays[j].kind /\ key.port \in io_delays[j].ports
  /\ key \in Keys(io_delays[j]) => slot \in Slots(io_delays[j])

Speaking(key, slot, n) ==
  {i \in 1..n : Touches(i, key, slot) /\ \A j \in (i + 1)..n : ~Overrules(j, key, slot)}

AllKeys == UNION {Keys(io_delays[i]) : i \in DOMAIN io_delays}

(* docs/compatibility.md:141-145: the active value of a slot is the least  *)
(* (min) or the greatest (max) of the commands that still speak for it,    *)
(* and a slot nobody speaks for is not active.                             *)
ActiveIsHistory ==
  pass = "done" =>
    \A k \in AllKeys : \A s \in AllSlots :
      LET values == {io_delays[i].value : i \in Speaking(k, s, Len(io_delays))}
          isSet  == k \in DOMAIN active /\ s \in DOMAIN active[k].values
      IN  /\ isSet <=> values # {}
          /\ isSet => /\ active[k].values[s] \in values
                      /\ \A v \in values : IF s[2] = "min" THEN active[k].values[s] <= v
                                           ELSE active[k].values[s] >= v

(* docs/rules/OC3014.md: a command is reported for a port exactly when it  *)
(* overrules what an earlier command was still saying there; no earlier    *)
(* intent is lost unreported, and nothing lost before is reported again.   *)
OverwritesReported ==
  pass = "done" =>
    \A j \in DOMAIN io_delays : \A p \in io_delays[j].ports :
      <<"OC3014", j, p>> \in findings <=>
        \E k \in AllKeys : \E s \in AllSlots :
          k.port = p /\ Overrules(j, k, s) /\ Speaking(k, s, j - 1) # {}

(* The compacted records say exactly what is active: no slot, port or      *)
(* value is invented or dropped, and none is said twice.                   *)
SnapshotExact ==
  pass = "done" =>
    /\ Atoms = UNION {{[head |-> r.head, port |-> p, slot |-> s] : p \in r.ports, s \in r.cells} :
                        r \in Records}
    /\ \A q, r \in Records :
         q # r /\ q.head = r.head /\ q.ports \cap r.ports # {} => q.cells \cap r.cells = {}

(* A component of the coverage that reads 100 % agrees with the findings   *)
(* computed elsewhere: no required port is undelayed (OC3001, OC3002) and  *)
(* none has an incomplete relationship (OC3013).                           *)
FullCoverageIsClean ==
  pass = "done" =>
    \A kind \in Kinds :
      /\ coverage[kind].covered <= coverage[kind].total
      /\ coverage[kind].covered = coverage[kind].total =>
           /\ Required(kind) \subseteq delayed[kind]
           /\ \A f \in findings : f[1] = "OC3013" =>
                ~(f[2].kind = kind /\ f[2].port \in Required(kind))
=============================================================================
